---- MODULE Spec2Model ----
(***************************************************************************)
(* Model of the dependency graph engine of src/main.py (ModAnalyzer):      *)
(* the cache-backed metadata retrieval (get_mod_data), the rule lookups    *)
(* (_get_effective_id, _is_dependency_satisfied), the recursive tree       *)
(* builder (_build_dependency_tree) and the breadth-first network builder  *)
(* (_build_full_dependency_network).                                       *)
(*                                                                         *)
(* Modelling conventions                                                   *)
(*  - A catalog id is a positive integer (the digits of the Nexus id).     *)
(*  - A Python dict with optional keys is a record with a field "keys",    *)
(*    the set of keys present; a field whose key is absent holds a dummy.  *)
(*  - An Optional[...] value is a sequence of length 0 (None) or 1.        *)
(*  - A url is the sequence of its path segments; a run of digits is an    *)
(*    integer segment.                                                     *)
(*  - Time is counted in whole days.                                       *)
(***************************************************************************)
EXTENDS Integers, Sequences, FiniteSets, TLC

VARIABLES
    cache_data,             \* ModAnalyzer.cache_data: id -> entry (a dict)
    now,                    \* datetime.now(), in days
    CACHE_EXPIRATION_DAYS,  \* PluginSettings.CACHE_EXPIRATION_DAYS
    page,                   \* ModAnalyzer.page is not None
    catalog,                \* the remote site: id -> page content
    failing,                \* ids whose page load currently raises
    ignore_ids,             \* ModAnalyzer.ignore_ids
    replacement_map,        \* ModAnalyzer.replacement_map
    folder_to_id,           \* ModAnalyzer.folder_to_id
    id_to_folders,          \* ModAnalyzer.id_to_folders
    installed_ids,          \* ModAnalyzer.installed_ids
    last_get,               \* record of the last get_mod_data call
    rule_query,             \* record of the last rule lookup
    tree_nodes,             \* nodes of the tree built so far
    tree_pc,                \* position of analyze_single_mod_dependencies
    graph,                  \* _build_full_dependency_network: graph
    reverse_graph,          \* ... reverse_graph
    nodes_to_process,       \* ... nodes_to_process (deque)
    processed_nodes,        \* ... processed_nodes
    net_pc,                 \* position of _build_full_dependency_network
    net_gets,               \* ids passed to get_mod_data by the traversal, in order
    missing_report,         \* result of _identify_missing_dependencies
    sorted_order,           \* result of _perform_topological_sort: sorted_order
    cyclic_nodes,           \* result of _perform_topological_sort: cyclic_nodes
    in_degree,              \* in_degree of _perform_topological_sort at its return
    full_pc,                \* position of generate_sorted_load_order after the traversal
    mod_list,               \* the host's enabled mods, by profile priority
    run_pc,                 \* position of Worker._run_analysis
    cache_file,             \* the file at CACHE_FILE_PATH
    signals,                \* terminal signals the worker emitted in this run
    closed,                 \* calls of ModAnalyzer.close in this run
    cleared                 \* the log line of the last clearing of the cache: its day

vars == <<cache_data, now, CACHE_EXPIRATION_DAYS, page, catalog, failing,
          ignore_ids, replacement_map, folder_to_id, id_to_folders,
          installed_ids, last_get, rule_query, tree_nodes, tree_pc,
          graph, reverse_graph, nodes_to_process, processed_nodes, net_pc,
          net_gets, missing_report, sorted_order, cyclic_nodes, in_degree, full_pc,
          mod_list, run_pc, cache_file, signals, closed, cleared>>

-----------------------------------------------------------------------------
(* Bounds of the model *)

MaxId == 3              \* catalog ids are 1..MaxId
MaxEdges == 3           \* total number of requirement rows in a catalog
MaxClock == 2           \* the clock runs over 0..MaxClock
MaxExpirationDays == 2  \* the expiration setting ranges over 0..MaxExpirationDays

Ids == 1..MaxId

-----------------------------------------------------------------------------
(* Data *)

NEXUS_BASE_URL == "https://www.nexusmods.com"
GAME_NAME == "skyrimspecialedition"

\* f-string {NEXUS_BASE_URL}/{GAME_NAME}/mods/{mod_id}
ModUrl(mod_id) == <<NEXUS_BASE_URL, GAME_NAME, "mods", mod_id>>

\* one row of a requirements table, as scrape_dep_section builds it
Row(i) == [name |-> <<"Mod", i>>, url |-> ModUrl(i), notes |-> <<"note", i>>]
BadRow == [name |-> <<"User">>,
           url |-> <<NEXUS_BASE_URL, GAME_NAME, "users", 1>>,
           notes |-> <<"note", 0>>]
Rows == {Row(i) : i \in Ids} \cup {BadRow}

\* the remote pages: title, category breadcrumb and the "Nexus requirements" rows
PageOf(i, cat, rows) == [name |-> <<"Mod", i>>, category |-> cat, requires |-> rows]

\* all assignments of requirement rows to Ids with at most k rows in total, at
\* most one of them a row that is no link to a mod page
RECURSIVE RowMaps(_)
RowMaps(k) ==
    IF k = 0 THEN {[i \in Ids |-> <<>>]}
    ELSE LET S == RowMaps(k - 1)
             HasBadRow(c) == \E i \in Ids : \E j \in 1..Len(c[i]) : c[i][j] = BadRow
         IN S \cup {[c EXCEPT ![i] = Append(@, Row(t))] : c \in S, i \in Ids, t \in Ids}
              \cup {[c EXCEPT ![i] = Append(@, BadRow)] :
                        c \in {d \in S : ~HasBadRow(d)}, i \in Ids}

\* catalogs whose pages are all in the category "Default"
Catalogs == {[i \in Ids |-> PageOf(i, "Default", c[i])] : c \in RowMaps(MaxEdges)}

-----------------------------------------------------------------------------
(* Metadata entries (the dicts held in cache_data and returned by get_mod_data) *)

\* new_entry of get_mod_data: a successful scrape of page p at time t
NewEntry(p, t) ==
    [keys |-> {"name", "category", "timestamp", "dependencies"},
     name |-> p.name, category |-> p.category, timestamp |-> t,
     requires |-> p.requires]

\* the dict returned by the except branch of get_mod_data
ErrorEntry(mod_id) ==
    [keys |-> {"name", "error", "category", "dependencies"},
     name |-> <<"FetchFailed", mod_id>>, category |-> "Default", timestamp |-> 0,
     requires |-> <<>>]

\* mod_data.get("dependencies", {}).get("requires", [])
RequiresOf(mod_data) ==
    IF "dependencies" \in mod_data.keys THEN mod_data.requires ELSE <<>>

\* ModAnalyzer._is_cache_entry_valid mutated: <= instead of <
IsCacheEntryValidInclusive(entry) ==
    /\ "timestamp" \in entry.keys
    /\ now - entry.timestamp <= CACHE_EXPIRATION_DAYS

\* ModAnalyzer._is_cache_entry_valid
_is_cache_entry_valid(entry) ==
    IF "timestamp" \notin entry.keys THEN FALSE
    ELSE now - entry.timestamp < CACHE_EXPIRATION_DAYS

\* ModAnalyzer._extract_mod_id_from_url mutated: the last number of the url
ExtractLastNumber(url) ==
    IF Len(url) > 0 /\ url[Len(url)] \in Nat THEN {url[Len(url)]} ELSE {}

\* ModAnalyzer._extract_mod_id_from_url: re.search(r'/mods/(\d+)', url);
\* the result is {} for None and {id} for a match
_extract_mod_id_from_url(url) ==
    LET hits == {k \in 1..(Len(url) - 1) : url[k] = "mods" /\ url[k + 1] \in Nat}
    IN IF hits = {} THEN {}
       ELSE {url[(CHOOSE k \in hits : \A j \in hits : k <= j) + 1]}

\* get_mod_data mutated: the failure is stored in the cache as well
GetModDataStoreError(cd, mod_id, down) ==
    IF mod_id \in DOMAIN cd /\ _is_cache_entry_valid(cd[mod_id])
    THEN [raised |-> FALSE, ret |-> cd[mod_id], cache |-> cd, fetched |-> FALSE]
    ELSE IF mod_id \in down
    THEN [raised |-> FALSE, ret |-> ErrorEntry(mod_id),
          cache |-> [i \in DOMAIN cd \cup {mod_id} |->
                        IF i = mod_id THEN ErrorEntry(mod_id) ELSE cd[i]],
          fetched |-> TRUE]
    ELSE [raised |-> FALSE, ret |-> NewEntry(catalog[mod_id], now),
          cache |-> [i \in DOMAIN cd \cup {mod_id} |->
                        IF i = mod_id THEN NewEntry(catalog[mod_id], now) ELSE cd[i]],
          fetched |-> TRUE]

\* get_mod_data mutated: the cache is never consulted
GetModDataAlwaysFetch(cd, mod_id, down) ==
    IF mod_id \in down
    THEN [raised |-> FALSE, ret |-> ErrorEntry(mod_id), cache |-> cd, fetched |-> TRUE]
    ELSE [raised |-> FALSE, ret |-> NewEntry(catalog[mod_id], now),
          cache |-> [i \in DOMAIN cd \cup {mod_id} |->
                        IF i = mod_id THEN NewEntry(catalog[mod_id], now) ELSE cd[i]],
          fetched |-> TRUE]

\* ModAnalyzer.get_mod_data mutated: the failure of the page load propagates
GetModDataRaising(cd, mod_id, down) ==
    IF mod_id \in DOMAIN cd /\ _is_cache_entry_valid(cd[mod_id])
    THEN [raised |-> FALSE, ret |-> cd[mod_id], cache |-> cd, fetched |-> FALSE]
    ELSE IF ~page \/ mod_id \in down
    THEN [raised |-> TRUE, ret |-> ErrorEntry(mod_id), cache |-> cd, fetched |-> mod_id \in down]
    ELSE [raised |-> FALSE, ret |-> NewEntry(catalog[mod_id], now),
          cache |-> [i \in DOMAIN cd \cup {mod_id} |->
                        IF i = mod_id THEN NewEntry(catalog[mod_id], now) ELSE cd[i]],
          fetched |-> TRUE]

\* ModAnalyzer.get_mod_data on the cache cd, when loading the pages of the ids in
\* down raises: what it returns (or that it raised), the cache it leaves, and
\* whether it loaded the page (the provider call)
get_mod_data(cd, mod_id, down) ==
    IF mod_id \in DOMAIN cd /\ _is_cache_entry_valid(cd[mod_id])
    THEN [raised |-> FALSE, ret |-> cd[mod_id], cache |-> cd, fetched |-> FALSE]
    ELSE IF ~page
    THEN [raised |-> TRUE, ret |-> ErrorEntry(mod_id), cache |-> cd, fetched |-> FALSE]
    ELSE IF mod_id \in down
    THEN [raised |-> FALSE, ret |-> ErrorEntry(mod_id), cache |-> cd, fetched |-> TRUE]
    ELSE [raised |-> FALSE, ret |-> NewEntry(catalog[mod_id], now),
          cache |-> [i \in DOMAIN cd \cup {mod_id} |->
                        IF i = mod_id THEN NewEntry(catalog[mod_id], now) ELSE cd[i]],
          fetched |-> TRUE]

-----------------------------------------------------------------------------
(* Rules *)

\* _get_effective_id mutated: the replacement chain is followed one more hop
GetEffectiveIdChained(required_id) ==
    LET once == IF required_id \in DOMAIN replacement_map
                THEN replacement_map[required_id] ELSE required_id
    IN IF once \in DOMAIN replacement_map THEN replacement_map[once] ELSE once

\* ModAnalyzer._get_effective_id: self.replacement_map.get(required_id, required_id)
_get_effective_id(required_id) ==
    IF required_id \in DOMAIN replacement_map
    THEN replacement_map[required_id] ELSE required_id

\* _is_dependency_satisfied mutated: the id itself is looked up, not its replacement
IsDependencySatisfiedDirect(required_id) == required_id \in installed_ids

\* ModAnalyzer._is_dependency_satisfied
_is_dependency_satisfied(required_id) ==
    _get_effective_id(required_id) \in installed_ids

-----------------------------------------------------------------------------
(* Inventory *)

\* the entries the host may list under one local name
ModEntries(name) ==
    {[name |-> name, nexusId |-> v, isSeparator |-> sep] :
        v \in 0..MaxId, sep \in BOOLEAN}

\* the host's mod lists over the local names ns, in this priority order
RECURSIVE ModListsOver(_)
ModListsOver(ns) ==
    IF ns = <<>> THEN {<<>>}
    ELSE {<<e>> \o rest : e \in ModEntries(Head(ns)), rest \in ModListsOver(Tail(ns))}

\* the condition of the loop of _parse_installed_mods
HasValidId(mod) == ~mod.isSeparator /\ mod.nexusId > 0

\* ModAnalyzer._parse_installed_mods: the three inventory maps of a mod list
_parse_installed_mods(ml) ==
    LET kept == SelectSeq(ml, HasValidId)
        names == {kept[k].name : k \in 1..Len(kept)}
        f2i == [n \in names |->
                  LET k == CHOOSE j \in 1..Len(kept) :
                              /\ kept[j].name = n
                              /\ \A h \in 1..Len(kept) : kept[h].name = n => h <= j
                  IN kept[k].nexusId]
        ids == {kept[k].nexusId : k \in 1..Len(kept)}
        IsFor(i) == LET Test(m) == m.nexusId = i IN SelectSeq(kept, Test)
    IN [folder_to_id |-> f2i,
        id_to_folders |-> [i \in ids |-> [k \in 1..Len(IsFor(i)) |-> IsFor(i)[k].name]],
        installed_ids |-> {f2i[n] : n \in names}]

\* all partial maps from Ids to Ids (the [Replace] section)
ReplacementMaps == UNION {[S -> Ids] : S \in SUBSET Ids}

-----------------------------------------------------------------------------
(* Values of the operation variables while the operation is not running *)

NoCache == [i \in {} |-> ErrorEntry(i)]
NoGet == [op |-> "none", id |-> 0, pre |-> NoCache, at |-> 0,
          ret |-> ErrorEntry(0), fetched |-> FALSE, raised |-> FALSE]
NoQuery == [op |-> "none", id |-> 0, effective |-> 0, satisfied |-> FALSE]

TreeIdle == /\ tree_nodes = {} /\ tree_pc = "idle"
FullIdle ==
    /\ missing_report = NoCache /\ sorted_order = <<>> /\ cyclic_nodes = <<>>
    /\ in_degree = NoCache
    /\ full_pc = "idle"
NetIdle ==
    /\ graph = NoCache /\ reverse_graph = NoCache
    /\ nodes_to_process = <<>> /\ processed_nodes = {}
    /\ net_pc = "idle" /\ net_gets = <<>>

treeVars == <<tree_nodes, tree_pc>>
netVars == <<graph, reverse_graph, nodes_to_process, processed_nodes, net_pc, net_gets>>
fullVars == <<missing_report, sorted_order, cyclic_nodes, in_degree, full_pc>>
ruleVars == <<ignore_ids, replacement_map>>
inventoryVars == <<folder_to_id, id_to_folders, installed_ids, mod_list>>
siteVars == <<catalog, failing>>
workerVars == <<cache_file, signals, closed, cleared>>

\* the file at CACHE_FILE_PATH: absent, holding a dict, or left as the analyzer
\* found it when it loaded cache_data (its content is then not tracked)
NoFile == [kind |-> "absent", data |-> NoCache]
FileOf(cd) == [kind |-> "holds", data |-> cd]
AsLoaded == [kind |-> "as_loaded", data |-> NoCache]

\* ModAnalyzer._load_cache: the dict of the file, the empty dict without a file
_load_cache(file) == IF file.kind = "holds" THEN file.data ELSE NoCache

\* a run in which the worker has emitted nothing and closed nothing, and the
\* cache file is as the analyzer found it
FreshRun ==
    /\ cache_file = AsLoaded
    /\ signals = <<>>
    /\ closed = 0
    /\ cleared = <<>>

\* ModAnalyzer.__init__: the inventory maps are those of the host's mod list
InventoryIs(ml) ==
    /\ mod_list = ml
    /\ folder_to_id = _parse_installed_mods(ml).folder_to_id
    /\ id_to_folders = _parse_installed_mods(ml).id_to_folders
    /\ installed_ids = _parse_installed_mods(ml).installed_ids

-----------------------------------------------------------------------------
(* The metadata store: get_mod_data under a changing clock and site *)

\* a page in which every mod requires the next one
RingCatalog == [i \in Ids |-> PageOf(i, "Default", <<Row((i % MaxId) + 1)>>)]

\* an entry of the persisted cache file, written by an earlier run at time t
OldEntry(i, t) == NewEntry(PageOf(i, "Default", <<>>), t)
\* an entry of the persisted cache file that carries no timestamp
UnstampedEntry(i) ==
    [keys |-> {"name", "category", "dependencies"},
     name |-> <<"Mod", i>>, category |-> "Default", timestamp |-> 0, requires |-> <<>>]

\* what _load_cache may return at time t: any set of ids, each with an entry
\* written at or before t (stamp u >= 0) or without timestamp (stamp -1)
LoadedCaches(t) ==
    UNION {{[i \in S |-> IF g[i] < 0 THEN UnstampedEntry(i) ELSE OldEntry(i, g[i])] :
                g \in [S -> (-1)..t]} : S \in SUBSET Ids}

InitGet ==
    /\ now = 0
    /\ cache_data \in LoadedCaches(now)
    /\ CACHE_EXPIRATION_DAYS \in 0..MaxExpirationDays
    /\ page = FALSE
    /\ run_pc = "constructed"
    /\ catalog = RingCatalog
    /\ failing = {}
    /\ ignore_ids = {} /\ replacement_map = NoCache
    /\ InventoryIs(<<>>)
    /\ last_get = NoGet
    /\ rule_query = NoQuery
    /\ TreeIdle /\ NetIdle /\ FullIdle
    /\ FreshRun

\* Worker._run_analysis mutated: no return after a failed _initialize_browser
InitializeBrowserNoReturn ==
    /\ run_pc = "constructed"
    /\ \E ok \in BOOLEAN :
        /\ page' = ok
        /\ run_pc' = "ready"
    /\ UNCHANGED <<cache_data, now, CACHE_EXPIRATION_DAYS, siteVars, ruleVars,
                   inventoryVars, last_get, rule_query, treeVars, netVars, fullVars,
                   workerVars>>

\* ModAnalyzer._initialize_browser, as Worker._run_analysis calls it: with usable
\* cookies and a browser that starts, page is set; otherwise the worker emits
\* error, closes the analyzer, which saves the cache, and the run ends
InitializeBrowser ==
    /\ run_pc = "constructed"
    /\ \E ok \in BOOLEAN :
        /\ page' = ok
        /\ run_pc' = IF ok THEN "ready" ELSE "failed"
        /\ signals' = IF ok THEN signals ELSE Append(signals, "error")
        /\ closed' = IF ok THEN closed ELSE closed + 1
        /\ cache_file' = IF ok THEN cache_file ELSE FileOf(cache_data)
    /\ UNCHANGED <<cache_data, now, CACHE_EXPIRATION_DAYS, siteVars, ruleVars,
                   inventoryVars, last_get, rule_query, treeVars, netVars, fullVars,
                   cleared>>

\* one call of get_mod_data(mod_id) made by the analysis; the page load succeeds
\* or raises
GetModData ==
    /\ run_pc = "ready"
    /\ \E mod_id \in Ids, down \in {{}, Ids} :
        LET r == get_mod_data(cache_data, mod_id, down)
        IN /\ cache_data' = r.cache
           /\ last_get' = [op |-> "get", id |-> mod_id, pre |-> cache_data, at |-> now,
                           ret |-> r.ret, fetched |-> r.fetched, raised |-> r.raised]
    /\ UNCHANGED <<now, CACHE_EXPIRATION_DAYS, page, siteVars, ruleVars, inventoryVars,
                   rule_query, treeVars, netVars, fullVars, run_pc, workerVars>>

\* a day passes
Tick ==
    /\ now < MaxClock
    /\ now' = now + 1
    /\ UNCHANGED <<cache_data, CACHE_EXPIRATION_DAYS, page, siteVars, ruleVars,
                   inventoryVars, last_get, rule_query, treeVars, netVars, fullVars, run_pc,
                   workerVars>>

NextGet == InitializeBrowser \/ GetModData \/ Tick

SpecGet == InitGet /\ [][NextGet]_vars

-----------------------------------------------------------------------------
(* Claims about the metadata store *)

\* the validity rule of the data model: the entry has a fetch time and
\* t - fetchedAt < expirationWindow
FreshAt(entry, t) ==
    /\ "timestamp" \in entry.keys
    /\ t - entry.timestamp < CACHE_EXPIRATION_DAYS

LastGetHit ==
    /\ last_get.id \in DOMAIN last_get.pre
    /\ FreshAt(last_get.pre[last_get.id], last_get.at)

\* C1: get(id) returns the stored entry, without calling the provider and without
\* changing the store, when the store holds a valid entry for id; in every other
\* case it calls the provider for id.
C1_GetHitOrFetch ==
    last_get.op = "get" =>
        /\ LastGetHit =>
            /\ last_get.ret = last_get.pre[last_get.id]
            /\ ~last_get.fetched
            /\ cache_data = last_get.pre
        /\ ~LastGetHit => last_get.fetched

C1_Witness ==
    /\ last_get.op = "get"
    /\ LastGetHit
    /\ ~last_get.fetched
    /\ \E i \in DOMAIN cache_data : i # last_get.id /\ ~FreshAt(cache_data[i], now)

\* C2 as stated: after every get(id) that missed the cache the store holds, under
\* id, the value get returned, whether the fetch succeeded or failed.
C2_StoredAfterEveryMiss ==
    (last_get.op = "get" /\ last_get.fetched) =>
        /\ last_get.id \in DOMAIN cache_data
        /\ cache_data[last_get.id] = last_get.ret

\* C2 amended: after a get(id) that missed the cache and whose fetch succeeded, the
\* store holds under id the value get returned, and a second get(id) within the
\* expiration window does not call the provider; after a failed fetch the store
\* is as it was before the call (the error-marked value is returned, not stored)
\* and the next get(id) calls the provider again.
C2_StoredAfterSuccessfulFetch ==
    (last_get.op = "get" /\ last_get.fetched) =>
        IF "error" \in last_get.ret.keys
        THEN /\ cache_data = last_get.pre
             /\ \A down \in SUBSET Ids :
                    get_mod_data(cache_data, last_get.id, down).fetched
        ELSE /\ last_get.id \in DOMAIN cache_data
             /\ cache_data[last_get.id] = last_get.ret
             /\ (now - last_get.ret.timestamp < CACHE_EXPIRATION_DAYS
                    => \A down \in SUBSET Ids :
                           ~get_mod_data(cache_data, last_get.id, down).fetched)

C2_Witness ==
    /\ last_get.op = "get" /\ last_get.fetched
    /\ "error" \in last_get.ret.keys
    /\ last_get.id \notin DOMAIN cache_data

C4_StaleEntryKept ==
    (last_get.op = "get" /\ last_get.id \in DOMAIN last_get.pre) =>
        /\ ~last_get.fetched <=> FreshAt(last_get.pre[last_get.id], last_get.at)
        /\ ~FreshAt(last_get.pre[last_get.id], last_get.at) =>
            /\ last_get.fetched
            /\ IF "error" \in last_get.ret.keys
               THEN cache_data = last_get.pre
               ELSE /\ DOMAIN cache_data = DOMAIN last_get.pre
                    /\ cache_data[last_get.id] = last_get.ret
                    /\ \A i \in DOMAIN cache_data \ {last_get.id} :
                          cache_data[i] = last_get.pre[i]

C4_OnlyAFetchOverwrites ==
    \A i \in DOMAIN cache_data :
        /\ i \in DOMAIN cache_data'
        /\ cache_data'[i] # cache_data[i] =>
            /\ last_get'.op = "get" /\ last_get'.id = i /\ last_get'.fetched
            /\ "error" \notin last_get'.ret.keys
            /\ cache_data'[i] = last_get'.ret

\* C4: an entry is valid iff it has a fetch time and now - fetchedAt is less than the
\* expiration window; a get for an id with an invalid entry fetches again; the
\* invalid entry stays in the store as it is until a successful fetch for the same
\* id overwrites it, and a failed re-fetch leaves the store unchanged.
C4_ValidityAndNoEviction ==
    []C4_StaleEntryKept /\ [][C4_OnlyAFetchOverwrites]_vars

C4_Witness ==
    /\ last_get.op = "get"
    /\ last_get.id \in DOMAIN last_get.pre
    /\ "timestamp" \in last_get.pre[last_get.id].keys
    /\ ~FreshAt(last_get.pre[last_get.id], last_get.at)
    /\ "error" \in last_get.ret.keys
    /\ cache_data[last_get.id] = last_get.pre[last_get.id]

-----------------------------------------------------------------------------
(* The rule lookups, applied to every rule set and inventory *)

\* mod lists without separators
PlainModLists(ns) ==
    {ml \in ModListsOver(ns) : \A k \in 1..Len(ml) : ~ml[k].isSeparator}

\* the state of an analyzer whose browser is up, before any analysis step
ReadyAnalyzer ==
    /\ now = 0
    /\ CACHE_EXPIRATION_DAYS = MaxExpirationDays
    /\ page = TRUE
    /\ run_pc = "ready"
    /\ last_get = NoGet
    /\ rule_query = NoQuery
    /\ TreeIdle /\ NetIdle /\ FullIdle

InitRules ==
    /\ ReadyAnalyzer
    /\ cache_data = NoCache
    /\ catalog = RingCatalog
    /\ failing = {}
    /\ ignore_ids \in SUBSET Ids
    /\ replacement_map \in ReplacementMaps
    /\ \E ml \in PlainModLists(<<"A", "B">>) : InventoryIs(ml)
    /\ FreshRun

\* one evaluation of _get_effective_id and _is_dependency_satisfied
QueryRule ==
    /\ \E x \in Ids :
        rule_query' = [op |-> "query", id |-> x,
                       effective |-> _get_effective_id(x),
                       satisfied |-> _is_dependency_satisfied(x)]
    /\ UNCHANGED <<cache_data, now, CACHE_EXPIRATION_DAYS, page, siteVars, ruleVars,
                   inventoryVars, last_get, treeVars, netVars, fullVars, run_pc,
                   workerVars>>

NextRules == QueryRule

SpecRules == InitRules /\ [][NextRules]_vars

\* replace.get(x, x), one lookup
OneHop(x) == IF x \in DOMAIN replacement_map THEN replacement_map[x] ELSE x

\* C5: effectiveId(x) is replace[x] when x is a key of replace and x otherwise, by
\* one lookup only (never the replacement of the replacement); isSatisfied(x) is
\* true iff effectiveId(x) is installed, whether or not x is installed or ignored.
C5_SingleHopReplacement ==
    rule_query.op = "query" =>
        /\ rule_query.effective = OneHop(rule_query.id)
        /\ rule_query.satisfied <=> (OneHop(rule_query.id) \in installed_ids)

\* a chain a -> b -> c with a installed and ignored, b not installed, c installed
C5_Witness ==
    /\ rule_query.op = "query"
    /\ rule_query.id \in DOMAIN replacement_map
    /\ rule_query.effective \in DOMAIN replacement_map
    /\ replacement_map[rule_query.effective] \notin {rule_query.id, rule_query.effective}
    /\ rule_query.id \in installed_ids \cap ignore_ids
    /\ replacement_map[rule_query.effective] \in installed_ids
    /\ ~rule_query.satisfied

-----------------------------------------------------------------------------
(* The tree builder: analyze_single_mod_dependencies / _build_dependency_tree *)

\* A pending call _build_dependency_tree(mod_id, visited_ids) is a frame: its
\* arguments, the position of its node in the tree (path: the child indices from
\* the root) and the notes its caller attaches to the node it returns.
\* A stack holds the pending calls, the next one first, so that the calls run in
\* the order of the recursion.
Frame(path, mod_id, visited_ids, notes) ==
    [path |-> path, mod_id |-> mod_id, visited_ids |-> visited_ids, notes |-> notes]

\* line 513: mod_id in visited_ids
IsRevisit(frame) == frame.mod_id \in frame.visited_ids

\* lines 527-532 mutated: the installed test comes first
NodeStatusInstalledFirst(mod_id, effective_id) ==
    IF effective_id \in installed_ids THEN "satisfied"
    ELSE IF mod_id \in ignore_ids THEN "ignored"
    ELSE "missing"

\* lines 527-532: the status of a node that is not a revisit
NodeStatus(mod_id, effective_id) ==
    IF mod_id \in ignore_ids THEN "ignored"
    ELSE IF effective_id \in installed_ids THEN "satisfied"
    ELSE "missing"

\* the rows of a requires list whose url yields an id, in order
Extractable(rows) ==
    LET Test(req) == _extract_mod_id_from_url(req.url) # {}
    IN SelectSeq(rows, Test)

ReqId(req) == CHOOSE i \in _extract_mod_id_from_url(req.url) : TRUE

\* lines 534-541 mutated: the calls share visited_ids instead of getting a copy,
\* so that a call sees the ids of its elder siblings
ChildCallsSharedVisited(frame, mod_data, status) ==
    IF status \in {"ignored", "cycle"} \/ "dependencies" \notin mod_data.keys THEN <<>>
    ELSE LET reqs == Extractable(RequiresOf(mod_data))
         IN [k \in 1..Len(reqs) |->
                Frame(Append(frame.path, k), ReqId(reqs[k]),
                      frame.visited_ids \cup {frame.mod_id}
                          \cup {ReqId(reqs[j]) : j \in 1..(k - 1)},
                      <<reqs[k].notes>>)]

\* lines 534-541: the recursive calls a node makes, in order; each gets a copy
\* of visited_ids, which holds mod_id since line 517
ChildCalls(frame, mod_data, status) ==
    IF status \in {"ignored", "cycle"} \/ "dependencies" \notin mod_data.keys THEN <<>>
    ELSE LET reqs == Extractable(RequiresOf(mod_data))
         IN [k \in 1..Len(reqs) |->
                Frame(Append(frame.path, k), ReqId(reqs[k]),
                      frame.visited_ids \cup {frame.mod_id}, <<reqs[k].notes>>)]

\* lines 512-515: the node of a revisited id
CycleNode(frame) ==
    [path |-> frame.path, id |-> frame.mod_id, name |-> <<"CycleDetected">>,
     status |-> "cycle", replacement_info |-> <<>>, notes |-> frame.notes,
     mod_data |-> <<>>]

\* lines 517-542: one call for an id that is not a revisit, on the cache cd:
\* the node, the recursive calls, the cache it leaves, and whether it raised
VisitNode(frame, cd) ==
    LET mod_id == frame.mod_id
        r1 == get_mod_data(cd, mod_id, failing)
        effective_id == _get_effective_id(mod_id)
        r2 == IF mod_id # effective_id /\ ~r1.raised
              THEN get_mod_data(r1.cache, effective_id, failing)
              ELSE r1
        status == NodeStatus(mod_id, effective_id)
    IN [node |-> [path |-> frame.path, id |-> mod_id, name |-> r1.ret.name,
                  status |-> status,
                  replacement_info |->
                      IF mod_id # effective_id
                      THEN <<[name |-> r2.ret.name, id |-> effective_id]>>
                      ELSE <<>>,
                  notes |-> frame.notes,
                  mod_data |-> <<r1.ret>>],
        calls |-> ChildCalls(frame, r1.ret, status),
        cache |-> r2.cache,
        raised |-> r1.raised \/ r2.raised]

\* _build_dependency_tree run to its end from the pending calls stack: the nodes
\* made, the cache left, and whether a call raised
RECURSIVE BuildTree(_, _, _)
BuildTree(stack, nodes, cd) ==
    IF stack = <<>> THEN [nodes |-> nodes, cache |-> cd, raised |-> FALSE]
    ELSE LET frame == Head(stack)
         IN IF IsRevisit(frame)
            THEN BuildTree(Tail(stack), nodes \cup {CycleNode(frame)}, cd)
            ELSE LET v == VisitNode(frame, cd)
                 IN IF v.raised
                    THEN [nodes |-> nodes, cache |-> cd, raised |-> TRUE]
                    ELSE BuildTree(v.calls \o Tail(stack), nodes \cup {v.node}, v.cache)

\* analyze_single_mod_dependencies(initial_mod_id): the tree built from the first
\* call, with set(); no tree when a call raised
AnalyzeSingleMod ==
    /\ run_pc = "ready" /\ tree_pc = "idle" /\ net_pc = "idle"
    /\ \E initial_mod_id \in Ids :
        \E r \in {BuildTree(<<Frame(<<>>, initial_mod_id, {}, <<>>)>>, {}, cache_data)} :
           /\ tree_pc' = IF r.raised THEN "raised" ELSE "done"
           /\ tree_nodes' = IF r.raised THEN {} ELSE r.nodes
           /\ cache_data' = r.cache
    /\ UNCHANGED <<now, CACHE_EXPIRATION_DAYS, page, siteVars, ruleVars,
                   inventoryVars, last_get, rule_query, netVars, fullVars, run_pc,
                   workerVars>>

\* an entry of the persisted cache file that has no "dependencies" key
NoDepsEntry(i, t) ==
    [keys |-> {"name", "category", "timestamp"},
     name |-> <<"Mod", i>>, category |-> "Default", timestamp |-> t, requires |-> <<>>]

Mod(name, nexusId) == [name |-> name, nexusId |-> nexusId, isSeparator |-> FALSE]

\* what a run starts from: rules, inventory, the pages that fail to load, the
\* persisted cache
Scenario(ign, repl, mods, down, cd) ==
    [ignore_ids |-> ign, replacement_map |-> repl, mod_list |-> mods,
     failing |-> down, cache_data |-> cd]

\* runs in which every page loads
Scenarios ==
    { Scenario({}, NoCache, <<>>, {}, NoCache),
      Scenario({2}, NoCache, <<Mod("A", 2), Mod("B", 3)>>, {}, NoCache),
      Scenario({}, [i \in {1, 2} |-> i + 1], <<Mod("A", 3), Mod("B", 1)>>, {}, NoCache),
      Scenario({2}, [i \in {2} |-> 1], <<Mod("A", 1)>>, {}, NoCache),
      Scenario({}, NoCache, <<Mod("A", 2)>>, {},
               [i \in {2} |-> NoDepsEntry(2, 0)]),
      Scenario({}, [i \in {2} |-> 1], <<Mod("A", 1), Mod("B", 2)>>, {},
               [i \in {1, 3} |-> IF i = 1 THEN OldEntry(1, 0) ELSE UnstampedEntry(3)]) }

InitAnalysis ==
    /\ ReadyAnalyzer
    /\ catalog \in Catalogs
    /\ \E sc \in Scenarios :
        /\ ignore_ids = sc.ignore_ids
        /\ replacement_map = sc.replacement_map
        /\ InventoryIs(sc.mod_list)
        /\ failing = sc.failing
        /\ cache_data = sc.cache_data
    /\ FreshRun

NextTree == AnalyzeSingleMod

SpecTree == InitAnalysis /\ [][NextTree]_vars

-----------------------------------------------------------------------------
(* The network builder: generate_sorted_load_order /                       *)
(* _build_full_dependency_network                                          *)

\* the orders in which deque(self.installed_ids) may list a set
Orderings(S) ==
    {q \in [1..Cardinality(S) -> S] : \A i, j \in 1..Cardinality(S) : q[i] = q[j] => i = j}

\* d[k].append(x) on a defaultdict(list)
AppendAt(d, k, x) ==
    [i \in DOMAIN d \cup {k} |->
        IF i = k THEN (IF k \in DOMAIN d THEN Append(d[k], x) ELSE <<x>>) ELSE d[i]]

\* line 598 mutated: the processed set is not consulted
NeverProcessed(current_id) == FALSE

\* line 598: current_id in processed_nodes
AlreadyProcessed(current_id) == current_id \in processed_nodes

\* line 607 mutated: ignored and satisfied requirements are not followed
EnqueueIfUnmet(req_id, done) ==
    /\ req_id \notin done
    /\ req_id \notin ignore_ids
    /\ ~_is_dependency_satisfied(req_id)

\* line 607: req_id not in processed_nodes
ShouldEnqueue(req_id, done) == req_id \notin done

\* lines 602-607 mutated: the reverse edge is recorded under the test of line 607,
\* only for a requirement that is not processed yet
RECURSIVE AddEdgesReverseWhenQueued(_, _, _, _, _, _)
AddEdgesReverseWhenQueued(current_id, reqs, g, rg, q, done) ==
    IF reqs = <<>> THEN [graph |-> g, reverse_graph |-> rg, queue |-> q]
    ELSE LET req == Head(reqs)
             found == _extract_mod_id_from_url(req.url)
         IN IF found = {}
            THEN AddEdgesReverseWhenQueued(current_id, Tail(reqs), g, rg, q, done)
            ELSE LET req_id == CHOOSE i \in found : TRUE
                 IN AddEdgesReverseWhenQueued(current_id, Tail(reqs),
                        AppendAt(g, current_id, [id |-> req_id, notes |-> req.notes]),
                        IF ShouldEnqueue(req_id, done)
                        THEN AppendAt(rg, req_id, [id |-> current_id, notes |-> req.notes])
                        ELSE rg,
                        IF ShouldEnqueue(req_id, done) THEN Append(q, req_id) ELSE q,
                        done)

\* lines 602-607 for the rows reqs of current_id, from the maps g and rg and
\* the queue q: the maps and the queue after the loop
RECURSIVE AddEdges(_, _, _, _, _, _)
AddEdges(current_id, reqs, g, rg, q, done) ==
    IF reqs = <<>> THEN [graph |-> g, reverse_graph |-> rg, queue |-> q]
    ELSE LET req == Head(reqs)
             found == _extract_mod_id_from_url(req.url)
         IN IF found = {} THEN AddEdges(current_id, Tail(reqs), g, rg, q, done)
            ELSE LET req_id == CHOOSE i \in found : TRUE
                 IN AddEdges(current_id, Tail(reqs),
                             AppendAt(g, current_id, [id |-> req_id, notes |-> req.notes]),
                             AppendAt(rg, req_id, [id |-> current_id, notes |-> req.notes]),
                             IF ShouldEnqueue(req_id, done) THEN Append(q, req_id) ELSE q,
                             done)

\* line 594 mutated: the queue is installed_ids itself, not a copy of it, and
\* takes the ids out of the set
StartNetworkDrainingInstalled ==
    /\ run_pc = "ready" /\ net_pc = "idle" /\ tree_pc = "idle"
    /\ IF DOMAIN folder_to_id = {}
       THEN /\ net_pc' = "no_report"
            /\ UNCHANGED <<nodes_to_process, installed_ids>>
       ELSE /\ net_pc' = "loop"
            /\ nodes_to_process' \in Orderings(installed_ids)
            /\ installed_ids' = {}
    /\ UNCHANGED <<cache_data, now, CACHE_EXPIRATION_DAYS, page, siteVars, ruleVars,
                   folder_to_id, id_to_folders, mod_list, last_get, rule_query,
                   treeVars, fullVars, run_pc, graph, reverse_graph, processed_nodes,
                   net_gets, workerVars>>

\* generate_sorted_load_order up to the first iteration of the traversal: without
\* any installed mod no report is made; otherwise the queue holds the installed ids
StartNetwork ==
    /\ run_pc = "ready" /\ net_pc = "idle" /\ tree_pc = "idle"
    /\ IF DOMAIN folder_to_id = {}
       THEN /\ net_pc' = "no_report"
            /\ UNCHANGED nodes_to_process
       ELSE /\ net_pc' = "loop"
            /\ nodes_to_process' \in Orderings(installed_ids)
    /\ UNCHANGED <<cache_data, now, CACHE_EXPIRATION_DAYS, page, siteVars, ruleVars,
                   inventoryVars, last_get, rule_query, treeVars, fullVars, run_pc,
                   graph, reverse_graph, processed_nodes, net_gets, workerVars>>

\* one iteration of the while loop of _build_full_dependency_network
NetStep ==
    /\ net_pc = "loop" /\ nodes_to_process # <<>>
    /\ LET current_id == Head(nodes_to_process)
           rest == Tail(nodes_to_process)
       IN IF AlreadyProcessed(current_id)
          THEN /\ nodes_to_process' = rest
               /\ UNCHANGED <<cache_data, graph, reverse_graph, processed_nodes,
                              net_pc, net_gets, workerVars>>
          ELSE LET r == get_mod_data(cache_data, current_id, failing)
                   done == processed_nodes \cup {current_id}
                   e == AddEdges(current_id, RequiresOf(r.ret), graph, reverse_graph,
                                 rest, done)
               IN IF r.raised
                  THEN /\ net_pc' = "raised"
                       /\ processed_nodes' = done
                       /\ nodes_to_process' = rest
                       /\ UNCHANGED <<cache_data, graph, reverse_graph, net_gets,
                                      workerVars>>
                  ELSE /\ processed_nodes' = done
                       /\ cache_data' = r.cache
                       /\ net_gets' = Append(net_gets, [id |-> current_id, mod_data |-> r.ret])
                       /\ graph' = e.graph
                       /\ reverse_graph' = e.reverse_graph
                       /\ nodes_to_process' = e.queue
                       /\ UNCHANGED net_pc
    /\ UNCHANGED <<now, CACHE_EXPIRATION_DAYS, page, siteVars, ruleVars,
                   inventoryVars, last_get, rule_query, treeVars, fullVars, run_pc,
                   workerVars>>

\* the queue is empty: _build_full_dependency_network returns
NetReturn ==
    /\ net_pc = "loop" /\ nodes_to_process = <<>>
    /\ net_pc' = "done"
    /\ UNCHANGED <<cache_data, now, CACHE_EXPIRATION_DAYS, page, siteVars, ruleVars,
                   inventoryVars, last_get, rule_query, treeVars, fullVars, run_pc,
                   graph, reverse_graph, nodes_to_process, processed_nodes, net_gets,
                   workerVars>>

NextNet == StartNetwork \/ NetStep \/ NetReturn

SpecNet == InitAnalysis /\ [][NextNet]_vars

-----------------------------------------------------------------------------
(* Claims about the tree builder *)

IsProperPrefix(p, q) == Len(p) < Len(q) /\ SubSeq(q, 1, Len(p)) = p

\* the nodes on the path from the root to n, n excluded
Ancestors(n) == {a \in tree_nodes : IsProperPrefix(a.path, n.path)}

\* the nodes below n
Below(n) == {m \in tree_nodes : IsProperPrefix(n.path, m.path)}

\* the id a requirement row refers to: row i of the catalog refers to i, the row
\* of a link that is no mod page refers to nothing
TargetOf(req) == {i \in Ids : req = Row(i)}

\* the requirement rows of a metadata dict that refer to an id, in order
Edges(mod_data) ==
    LET Test(req) == TargetOf(req) # {}
    IN IF "dependencies" \in mod_data.keys THEN SelectSeq(mod_data.requires, Test)
       ELSE <<>>

\* the k-th child of n is there with this id and note
HasChild(n, k, id, note) ==
    \E m \in tree_nodes :
        m.path = Append(n.path, k) /\ m.id = id /\ m.notes = <<note>>

\* n is expanded: one child per edge of its metadata, in edge order, and no other
Expanded(n) ==
    LET es == Edges(n.mod_data[1])
    IN /\ \A k \in 1..Len(es) :
            HasChild(n, k, CHOOSE i \in TargetOf(es[k]) : TRUE, es[k].notes)
       /\ \A m \in Below(n) : m.path[Len(n.path) + 1] \in 1..Len(es)

\* no two nodes at the same place
OneNodePerPath == \A n, m \in tree_nodes : n.path = m.path => n = m

\* C6: a node has status cycle iff its id is the id of one of its ancestors, and
\* such a node is a leaf; a node whose id occurs elsewhere in the tree but not
\* among its ancestors is not a cycle node and, unless it is ignored or its
\* metadata has no requirement list, it is expanded.
C6_CycleIffAncestor ==
    /\ OneNodePerPath
    /\ \A n \in tree_nodes :
        /\ n.status = "cycle" <=> \E a \in Ancestors(n) : a.id = n.id
        /\ n.status = "cycle" => Below(n) = {}
        /\ (/\ \E m \in tree_nodes \ Ancestors(n) : m.id = n.id /\ m.path # n.path
            /\ ~\E a \in Ancestors(n) : a.id = n.id
            /\ n.id \notin ignore_ids)
           => /\ n.mod_data # <<>>
              /\ "dependencies" \in n.mod_data[1].keys => Expanded(n)

\* A requires A with a child A of status cycle below each of two sibling nodes A,
\* both expanded
C6_Witness ==
    /\ tree_pc = "done"
    /\ \E n, m \in tree_nodes :
        /\ n.id = m.id /\ n.path # m.path
        /\ Len(n.path) = Len(m.path)
        /\ n.status # "cycle" /\ m.status # "cycle"
        /\ \E c \in tree_nodes : c.path = Append(n.path, 1) /\ c.id = n.id
                                 /\ c.status = "cycle"
        /\ \E c \in tree_nodes : c.path = Append(m.path, 1) /\ c.id = m.id
                                 /\ c.status = "cycle"

\* C7: every node whose id is in the ignore set has status ignored, at the root
\* and below it, whatever is installed or replaced, and has no children.
C7_IgnoredIsLeaf ==
    \A n \in tree_nodes :
        n.id \in ignore_ids => n.status = "ignored" /\ Below(n) = {}

\* an ignored node below the root whose id is installed and whose metadata lists
\* a requirement, and an ignored root
C7_Witness ==
    /\ tree_pc = "done"
    /\ \E n, r \in tree_nodes :
        /\ n.path # <<>> /\ n.id \in ignore_ids \cap installed_ids
        /\ Edges(n.mod_data[1]) # <<>>
        /\ n.status = "ignored"
        /\ r.path = <<>> /\ r.status # "ignored"

\* the status the precedence rule gives an id
RuleStatus(id) ==
    IF id \in ignore_ids THEN "ignored"
    ELSE IF OneHop(id) \in installed_ids THEN "satisfied"
    ELSE "missing"

\* C8: a node that is not a cycle node has the status of the precedence ignored >
\* satisfied (effective id installed) > missing; a satisfied or missing node whose
\* metadata has a requirement list has one child per requires edge with an
\* extractable target, in edge order, each with the note of its edge.
C8_StatusAndExpansion ==
    \A n \in tree_nodes :
        n.status # "cycle" =>
            /\ n.status = RuleStatus(n.id)
            /\ (n.status \in {"satisfied", "missing"}
                /\ "dependencies" \in n.mod_data[1].keys) => Expanded(n)

\* a node satisfied through its replacement only, with a malformed row between two
\* rows that became children with different notes
C8_Witness ==
    /\ tree_pc = "done"
    /\ \E n \in tree_nodes :
        /\ n.status = "satisfied" /\ n.id \notin installed_ids
        /\ Len(n.mod_data[1].requires) = 3
        /\ TargetOf(n.mod_data[1].requires[2]) = {}
        /\ \E c, d \in tree_nodes :
            /\ c.path = Append(n.path, 1) /\ d.path = Append(n.path, 2)
            /\ c.notes # d.notes
    /\ \E n \in tree_nodes : n.status = "missing" /\ n.id \in installed_ids

-----------------------------------------------------------------------------
(* Claims about the network builder *)

\* the edges recorded for u, none when u is no key
OutEdges(u) == IF u \in DOMAIN graph THEN graph[u] ELSE <<>>
InEdges(v) == IF v \in DOMAIN reverse_graph THEN reverse_graph[v] ELSE <<>>

\* the edge a requirement row stands for
EdgeOf(req) == [id |-> CHOOSE i \in TargetOf(req) : TRUE, notes |-> req.notes]

\* C9: the traversal calls get once for every visited id and for no other id, and
\* the edges of that id's metadata are in forward and in reverse once each, however
\* many edges point at the id.
C9_ExpandedOnce ==
    /\ \A i, j \in 1..Len(net_gets) : net_gets[i].id = net_gets[j].id => i = j
    /\ {net_gets[k].id : k \in 1..Len(net_gets)} = processed_nodes
    /\ DOMAIN graph \subseteq processed_nodes
    /\ \A k \in 1..Len(net_gets) :
        LET u == net_gets[k].id
            es == Edges(net_gets[k].mod_data)
        IN /\ OutEdges(u) = [j \in 1..Len(es) |-> EdgeOf(es[j])]
           /\ \A v \in Ids :
                Cardinality({j \in 1..Len(InEdges(v)) : InEdges(v)[j].id = u})
                    = Cardinality({j \in 1..Len(es) : TargetOf(es[j]) = {v}})

\* an id outside the inventory that two installed ids require, expanded with an
\* edge of its own
C9_Witness ==
    /\ net_pc = "done"
    /\ \E v \in DOMAIN reverse_graph \cap DOMAIN graph :
        /\ v \notin installed_ids
        /\ Len(reverse_graph[v]) = 2
        /\ reverse_graph[v][1].id # reverse_graph[v][2].id

\* the ids the metadata of id i requires, as get returns it in this run: the valid
\* cache entry, nothing when the page fails to load, the page's rows otherwise
Successors(i) ==
    LET rows == IF i \in DOMAIN cache_data /\ FreshAt(cache_data[i], now)
                THEN Edges(cache_data[i])
                ELSE IF i \in failing THEN <<>>
                ELSE Edges(NewEntry(catalog[i], now))
    IN UNION {TargetOf(rows[k]) : k \in 1..Len(rows)}

RECURSIVE Reachable(_)
Reachable(S) ==
    LET T == S \cup UNION {Successors(i) : i \in S}
    IN IF T = S THEN S ELSE Reachable(T)

\* C10: when buildNetwork returns, visited is installedIds with the keys of forward
\* and of reverse, and it is the set of ids reachable from the installed ids over
\* the requires edges; no rule and no installed status cuts the traversal short.
C10_VisitedIsClosure ==
    net_pc = "done" =>
        /\ processed_nodes = installed_ids \cup DOMAIN graph \cup DOMAIN reverse_graph
        /\ processed_nodes = Reachable(installed_ids)

\* an ignored id, satisfied through its replacement, that is visited, expanded and
\* leads to a further id
C10_Witness ==
    /\ net_pc = "done"
    /\ \E x \in (processed_nodes \cap ignore_ids) \ installed_ids :
        /\ OneHop(x) \in installed_ids
        /\ x \in DOMAIN graph
        /\ \E k \in 1..Len(graph[x]) :
            graph[x][k].id \in processed_nodes \ (installed_ids \cup {x})

-----------------------------------------------------------------------------
(* The missing analyzer and the sorter, as generate_sorted_load_order calls *)
(* them after the traversal                                                *)

\* Python's order of the local names and of the display names of the model:
\* local names are single capital letters; the name of a failed fetch begins
\* with a CJK character and so follows every page title
FolderOrder == <<"A", "B", "C", "X", "Y", "Z">>
FolderRank(f) == CHOOSE k \in 1..Len(FolderOrder) : FolderOrder[k] = f
FolderLess(f, g) == FolderRank(f) < FolderRank(g)
KindRank(kind) == IF kind = "Mod" THEN 1 ELSE 2
NameLess(a, b) ==
    \/ KindRank(a[1]) < KindRank(b[1])
    \/ KindRank(a[1]) = KindRank(b[1]) /\ a[2] < b[2]

\* sorted(seq, key=...): stable, key a function from the elements to integers
SortedBy(seq, key) ==
    LET RECURSIVE Insert(_, _)
        Insert(x, t) ==
            IF t = <<>> THEN <<x>>
            ELSE IF key[x] < key[Head(t)] THEN <<x>> \o t
            ELSE <<Head(t)>> \o Insert(x, Tail(t))
        RECURSIVE Sort(_, _)
        Sort(k, acc) == IF k > Len(seq) THEN acc ELSE Sort(k + 1, Insert(seq[k], acc))
    IN Sort(1, <<>>)

\* sorted(list(S)) for a set S whose elements have the distinct keys key
SortSet(S, key) ==
    [n \in 1..Cardinality(S) |->
        CHOOSE x \in S : Cardinality({y \in S : key[y] < key[x]}) = n - 1]

\* (name, id) tuples compare by name, then by id
MissingLess(a, b) == NameLess(a[1], b[1]) \/ (a[1] = b[1] /\ a[2] < b[2])

\* the sort keys: of an (folder, notes) pair its folder; of a (name, id) tuple of
\* the set S its place in S
InstalledKey(seq) == [k \in {seq[j] : j \in 1..Len(seq)} |-> FolderRank(k[1])]
MissingKey(S) == [x \in S |-> Cardinality({y \in S : MissingLess(y, x)})]
IdKey(S) == [i \in S |-> i]

\* d.get(k, [])
GetList(d, k) == IF k \in DOMAIN d THEN d[k] ELSE <<>>

\* lines 617-625: the requirers of one unmet id, from the cache cd
RECURSIVE ScanRequirers(_, _, _, _)
ScanRequirers(edges, unmet, acc, cd) ==
    IF edges = <<>> THEN [installed |-> acc.installed, missing |-> acc.missing,
                         cache |-> cd, raised |-> acc.raised]
    ELSE LET req_by_id == Head(edges).id
             notes == Head(edges).notes
             folders == GetList(id_to_folders, req_by_id)
         IN IF req_by_id \in installed_ids
            THEN ScanRequirers(Tail(edges), unmet,
                    [acc EXCEPT !.installed =
                        @ \o [k \in 1..Len(folders) |-> <<folders[k], notes>>]],
                    cd)
            ELSE IF _get_effective_id(req_by_id) \in unmet
            THEN LET r == get_mod_data(cd, req_by_id, failing)
                 IN ScanRequirers(Tail(edges), unmet,
                        [acc EXCEPT !.missing = @ \cup {<<r.ret.name, req_by_id>>},
                                    !.raised = @ \/ r.raised],
                        r.cache)
            ELSE ScanRequirers(Tail(edges), unmet, acc, cd)

\* lines 616-634: the report entries of the unmet ids ids (ascending), from the
\* report so far and the cache cd
RECURSIVE ReportEntries(_, _, _, _, _, _)
ReportEntries(ids, unmet, rg, report, cd, raised) ==
    IF ids = <<>> THEN [report |-> report, cache |-> cd, raised |-> raised]
    ELSE LET unmet_id == Head(ids)
             sc == ScanRequirers(GetList(rg, unmet_id), unmet,
                                 [installed |-> <<>>, missing |-> {}, raised |-> FALSE], cd)
             effective_id == _get_effective_id(unmet_id)
             r1 == get_mod_data(sc.cache, unmet_id, failing)
             r2 == IF unmet_id # effective_id
                   THEN get_mod_data(r1.cache, effective_id, failing) ELSE r1
             entry == [name |-> r1.ret.name,
                       required_by_installed |-> SortedBy(sc.installed, InstalledKey(sc.installed)),
                       required_by_missing |-> SortSet(sc.missing, MissingKey(sc.missing)),
                       effective_id |-> effective_id,
                       effective_name |->
                           IF unmet_id # effective_id THEN <<r2.ret.name>> ELSE <<>>]
         IN ReportEntries(Tail(ids), unmet, rg,
                          [i \in DOMAIN report \cup {unmet_id} |->
                              IF i = unmet_id THEN entry ELSE report[i]],
                          r2.cache, raised \/ sc.raised \/ r1.raised \/ r2.raised)

\* _identify_missing_dependencies mutated: the ignore set is not consulted
IdentifyMissingWithoutIgnore(all_nodes, rg, cd) ==
    LET unmet_dependencies == {nid \in all_nodes : ~_is_dependency_satisfied(nid)}
    IN IF unmet_dependencies = {}
       THEN [report |-> NoCache, cache |-> cd, raised |-> FALSE]
       ELSE ReportEntries(SortSet(unmet_dependencies, IdKey(unmet_dependencies)),
                          unmet_dependencies, rg, NoCache, cd, FALSE)

\* ModAnalyzer._identify_missing_dependencies(all_nodes, reverse_graph) on the
\* cache cd. The ids are sorted as strings; for ids of one digit that is their
\* numeric order.
_identify_missing_dependencies(all_nodes, rg, cd) ==
    LET unmet_dependencies ==
            {nid \in all_nodes : ~_is_dependency_satisfied(nid) /\ nid \notin ignore_ids}
    IN IF unmet_dependencies = {}
       THEN [report |-> NoCache, cache |-> cd, raised |-> FALSE]
       ELSE ReportEntries(SortSet(unmet_dependencies, IdKey(unmet_dependencies)), unmet_dependencies,
                          rg, NoCache, cd, FALSE)

\* PluginSettings.CATEGORY_PRIORITIES
CATEGORY_PRIORITIES ==
    "VR" :> 10 @@ "Modders Resources" :> 10 @@ "Utilities" :> 10 @@ "Bug Fixes" :> 11
    @@ "User Interface" :> 15 @@ "Gameplay" :> 20 @@ "Immersion" :> 21
    @@ "Combat" :> 25 @@ "Stealth" :> 26 @@ "Skills and Leveling" :> 30
    @@ "Magic - Gameplay" :> 35 @@ "Races, Classes, and Birthsigns" :> 36
    @@ "Guilds/Factions" :> 40 @@ "Quests and Adventures" :> 50
    @@ "Locations - New" :> 51 @@ "Dungeons" :> 52 @@ "Creatures and Mounts" :> 55
    @@ "NPC" :> 58 @@ "Followers & Companions" :> 59 @@ "Weapons" :> 60
    @@ "Armour" :> 61 @@ "Clothing and Accessories" :> 62
    @@ "Items and Objects - Player" :> 65 @@ "Models and Textures" :> 70
    @@ "Visuals and Graphics" :> 71 @@ "Environmental" :> 72 @@ "Animation" :> 75
    @@ "Body, Face, and Hair" :> 78 @@ "Audio" :> 80
    @@ "Presets - ENB and ReShade" :> 85 @@ "Overhauls" :> 90
    @@ "Miscellaneous" :> 95 @@ "Patches" :> 99 @@ "Default" :> 50

\* CATEGORY_PRIORITIES.get(mod_data.get("category", "Default"), 50)
PriorityOf(mod_data) ==
    LET category == IF "category" \in mod_data.keys THEN mod_data.category ELSE "Default"
    IN IF category \in DOMAIN CATEGORY_PRIORITIES THEN CATEGORY_PRIORITIES[category]
       ELSE 50

\* the keys of folder_to_id in the order of the dict: the order of the mod list
FoldersInOrder ==
    LET kept == SelectSeq(mod_list, HasValidId)
        First(k) == \A j \in 1..(k - 1) : kept[j].name # kept[k].name
        idx == {k \in 1..Len(kept) : First(k)}
        Nth(n) == CHOOSE k \in idx : Cardinality({j \in idx : j < k}) = n - 1
    IN [n \in 1..Cardinality(idx) |-> kept[Nth(n)].name]

Flatten(ss) ==
    LET RECURSIVE Cat(_)
        Cat(k) == IF k > Len(ss) THEN <<>> ELSE ss[k] \o Cat(k + 1)
    IN Cat(1)

\* lines 640-648 mutated: a folder is no provider of itself
PrecedenceEdgesNoSelfLoop(full_graph) ==
    LET ForReq(dep_folder, req_info) ==
            IF ~_is_dependency_satisfied(req_info.id) THEN <<>>
            ELSE LET providers ==
                        GetList(id_to_folders, _get_effective_id(req_info.id))
                     inDegree == SelectSeq(providers,
                                    LAMBDA f : f \in DOMAIN folder_to_id
                                               /\ f # dep_folder)
                 IN [k \in 1..Len(inDegree) |-> <<inDegree[k], dep_folder>>]
        ForFolder(dep_folder) ==
            LET reqs == GetList(full_graph, folder_to_id[dep_folder])
            IN Flatten([k \in 1..Len(reqs) |-> ForReq(dep_folder, reqs[k])])
    IN Flatten([n \in 1..Len(FoldersInOrder) |-> ForFolder(FoldersInOrder[n])])

\* lines 640-648 mutated: the edge runs from the dependent folder to the provider
PrecedenceEdgesReversed(full_graph) ==
    LET ForReq(dep_folder, req_info) ==
            IF ~_is_dependency_satisfied(req_info.id) THEN <<>>
            ELSE LET providers ==
                        GetList(id_to_folders, _get_effective_id(req_info.id))
                     inDegree == SelectSeq(providers,
                                    LAMBDA f : f \in DOMAIN folder_to_id)
                 IN [k \in 1..Len(inDegree) |-> <<dep_folder, inDegree[k]>>]
        ForFolder(dep_folder) ==
            LET reqs == GetList(full_graph, folder_to_id[dep_folder])
            IN Flatten([k \in 1..Len(reqs) |-> ForReq(dep_folder, reqs[k])])
    IN Flatten([n \in 1..Len(FoldersInOrder) |-> ForFolder(FoldersInOrder[n])])

\* lines 640-648: the precedence edges <<provider_folder, dep_folder>>, in the
\* order in which the loops add them
PrecedenceEdges(full_graph) ==
    LET ForReq(dep_folder, req_info) ==
            IF ~_is_dependency_satisfied(req_info.id) THEN <<>>
            ELSE LET providers ==
                        GetList(id_to_folders, _get_effective_id(req_info.id))
                     inDegree == SelectSeq(providers,
                                    LAMBDA f : f \in DOMAIN folder_to_id)
                 IN [k \in 1..Len(inDegree) |-> <<inDegree[k], dep_folder>>]
        ForFolder(dep_folder) ==
            LET reqs == GetList(full_graph, folder_to_id[dep_folder])
            IN Flatten([k \in 1..Len(reqs) |-> ForReq(dep_folder, reqs[k])])
    IN Flatten([n \in 1..Len(FoldersInOrder) |-> ForFolder(FoldersInOrder[n])])

\* heapq.heappop mutated: the pair of the least folder name, whatever its priority
HeapMinByName(ready) ==
    CHOOSE x \in ready : \A y \in ready \ {x} : FolderLess(x[2], y[2])

\* heapq.heappop on a heap of (priority, folder) pairs: the least pair
HeapMin(ready) ==
    CHOOSE x \in ready : \A y \in ready \ {x} :
        x[1] < y[1] \/ (x[1] = y[1] /\ FolderLess(x[2], y[2]))

\* lines 650-655 and 660-665 mutated: a folder is pushed while one of its providers
\* is still ahead of it
RECURSIVE PushReadyAtOne(_, _, _)
PushReadyAtOne(fs, dec, st) ==
    IF fs = <<>> THEN st
    ELSE LET f == Head(fs)
             d == st.in_degree[f] - dec
             r == get_mod_data(st.cache, folder_to_id[f], failing)
             st1 == [st EXCEPT !.in_degree[f] = d]
         IN IF d \in {0, 1} /\ dec = 1
            THEN PushReadyAtOne(Tail(fs), dec,
                    [st1 EXCEPT !.ready = @ \cup {<<PriorityOf(r.ret), f>>},
                                !.cache = r.cache,
                                !.raised = @ \/ r.raised])
            ELSE IF d = 0
            THEN PushReadyAtOne(Tail(fs), dec,
                    [st1 EXCEPT !.ready = @ \cup {<<PriorityOf(r.ret), f>>},
                                !.cache = r.cache,
                                !.raised = @ \/ r.raised])
            ELSE PushReadyAtOne(Tail(fs), dec, st1)

\* lines 650-655 and 660-665: every folder of fs whose in-degree is zero after
\* dec was subtracted is pushed with the priority of its category
RECURSIVE PushReady(_, _, _)
PushReady(fs, dec, st) ==
    IF fs = <<>> THEN st
    ELSE LET f == Head(fs)
             d == st.in_degree[f] - dec
             r == get_mod_data(st.cache, folder_to_id[f], failing)
             st1 == [st EXCEPT !.in_degree[f] = d]
         IN IF d = 0
            THEN PushReady(Tail(fs), dec,
                    [st1 EXCEPT !.ready = @ \cup {<<PriorityOf(r.ret), f>>},
                                !.cache = r.cache,
                                !.raised = @ \/ r.raised])
            ELSE PushReady(Tail(fs), dec, st1)

\* lines 657-665: the loop of Kahn's algorithm
RECURSIVE KahnLoop(_, _)
KahnLoop(out, st) ==
    IF st.ready = {} THEN st
    ELSE LET top == HeapMin(st.ready)
             u_folder == top[2]
         IN KahnLoop(out,
                PushReady(out[u_folder], 1,
                    [st EXCEPT !.ready = @ \ {top},
                               !.order = Append(@, u_folder)]))

\* _perform_topological_sort mutated: cyclic_nodes is read from the in-degrees
\* before the loop
SortReportingInitialDegree(full_graph, cd) ==
    LET es == PrecedenceEdges(full_graph)
        folders == FoldersInOrder
        out == [f \in DOMAIN folder_to_id |->
                  LET mine == SelectSeq(es, LAMBDA e : e[1] = f)
                  IN [k \in 1..Len(mine) |-> mine[k][2]]]
        in_degree0 == [f \in DOMAIN folder_to_id |->
                        Cardinality({k \in 1..Len(es) : es[k][2] = f})]
        st0 == PushReady(SelectSeq(folders, LAMBDA f : in_degree0[f] = 0), 0,
                         [ready |-> {}, in_degree |-> in_degree0, order |-> <<>>,
                          cache |-> cd, raised |-> FALSE])
        st == KahnLoop(out, st0)
    IN [sorted_order |-> st.order,
        cyclic_nodes |-> SelectSeq(folders, LAMBDA f : in_degree0[f] > 0),
        in_degree |-> st.in_degree,
        cache |-> st.cache, raised |-> st.raised]

\* ModAnalyzer._perform_topological_sort(full_graph) on the cache cd
_perform_topological_sort(full_graph, cd) ==
    LET es == PrecedenceEdges(full_graph)
        folders == FoldersInOrder
        out == [f \in DOMAIN folder_to_id |->
                  LET mine == SelectSeq(es, LAMBDA e : e[1] = f)
                  IN [k \in 1..Len(mine) |-> mine[k][2]]]
        in_degree0 == [f \in DOMAIN folder_to_id |->
                        Cardinality({k \in 1..Len(es) : es[k][2] = f})]
        st0 == PushReady(SelectSeq(folders, LAMBDA f : in_degree0[f] = 0), 0,
                         [ready |-> {}, in_degree |-> in_degree0, order |-> <<>>,
                          cache |-> cd, raised |-> FALSE])
        st == KahnLoop(out, st0)
    IN [sorted_order |-> st.order,
        cyclic_nodes |-> SelectSeq(folders, LAMBDA f : st.in_degree[f] > 0),
        in_degree |-> st.in_degree,
        cache |-> st.cache, raised |-> st.raised]

\* generate_sorted_load_order, line 584
IdentifyMissing ==
    /\ net_pc = "done" /\ full_pc = "idle"
    /\ \E r \in {_identify_missing_dependencies(processed_nodes, reverse_graph,
                                                cache_data)} :
          IF r.raised
          THEN /\ full_pc' = "raised"
               /\ UNCHANGED <<missing_report, cache_data, workerVars>>
          ELSE /\ full_pc' = "missing"
               /\ missing_report' = r.report
               /\ cache_data' = r.cache
    /\ UNCHANGED <<now, CACHE_EXPIRATION_DAYS, page, siteVars, ruleVars, inventoryVars,
                   last_get, rule_query, treeVars, netVars, sorted_order,
                   cyclic_nodes, in_degree, run_pc, workerVars>>

\* generate_sorted_load_order, line 585
TopologicalSort ==
    /\ full_pc = "missing"
    /\ \E r \in {_perform_topological_sort(graph, cache_data)} :
          IF r.raised
          THEN /\ full_pc' = "raised"
               /\ UNCHANGED <<sorted_order, cyclic_nodes, in_degree, cache_data,
                              workerVars>>
          ELSE /\ full_pc' = "sorted"
               /\ sorted_order' = r.sorted_order
               /\ cyclic_nodes' = r.cyclic_nodes
               /\ in_degree' = r.in_degree
               /\ cache_data' = r.cache
    /\ UNCHANGED <<now, CACHE_EXPIRATION_DAYS, page, siteVars, ruleVars, inventoryVars,
                   last_get, rule_query, treeVars, netVars, missing_report, run_pc,
                   workerVars>>

\* _build_full_dependency_network run to its end from the queue q: the maps, the
\* processed set and the cache it leaves, and whether a get raised
RECURSIVE BuildNetwork(_, _, _, _, _)
BuildNetwork(q, g, rg, done, cd) ==
    IF q = <<>>
    THEN [graph |-> g, reverse_graph |-> rg, processed_nodes |-> done,
          cache |-> cd, raised |-> FALSE]
    ELSE LET current_id == Head(q)
         IN IF current_id \in done THEN BuildNetwork(Tail(q), g, rg, done, cd)
            ELSE LET r == get_mod_data(cd, current_id, failing)
                     e == AddEdges(current_id, RequiresOf(r.ret), g, rg, Tail(q),
                                   done \cup {current_id})
                 IN IF r.raised
                    THEN [graph |-> g, reverse_graph |-> rg,
                          processed_nodes |-> done \cup {current_id},
                          cache |-> cd, raised |-> TRUE]
                    ELSE BuildNetwork(e.queue, e.graph, e.reverse_graph,
                                      done \cup {current_id}, r.cache)

\* generate_sorted_load_order as one step: no report without an installed mod;
\* otherwise the traversal from the installed ids in some order of the set, the
\* missing analysis and the sort
GenerateSortedLoadOrder ==
    /\ run_pc = "ready" /\ tree_pc = "idle" /\ net_pc = "idle" /\ full_pc = "idle"
    /\ IF DOMAIN folder_to_id = {}
       THEN /\ net_pc' = "no_report"
            /\ UNCHANGED <<cache_data, graph, reverse_graph, processed_nodes, fullVars,
                           workerVars>>
       ELSE \E q \in Orderings(installed_ids) :
            \E n \in {BuildNetwork(q, NoCache, NoCache, {}, cache_data)} :
            \E m \in {_identify_missing_dependencies(n.processed_nodes,
                                                     n.reverse_graph, n.cache)} :
            \E t \in {_perform_topological_sort(n.graph, m.cache)} :
               IF n.raised \/ m.raised \/ t.raised
               THEN /\ net_pc' = "raised"
                    /\ UNCHANGED <<cache_data, graph, reverse_graph, processed_nodes,
                                   fullVars, workerVars>>
               ELSE /\ net_pc' = "done"
                    /\ graph' = n.graph
                    /\ reverse_graph' = n.reverse_graph
                    /\ processed_nodes' = n.processed_nodes
                    /\ missing_report' = m.report
                    /\ sorted_order' = t.sorted_order
                    /\ cyclic_nodes' = t.cyclic_nodes
                    /\ in_degree' = t.in_degree
                    /\ full_pc' = "sorted"
                    /\ cache_data' = t.cache
    /\ UNCHANGED <<now, CACHE_EXPIRATION_DAYS, page, siteVars, ruleVars, inventoryVars,
                   last_get, rule_query, treeVars, nodes_to_process, net_gets, run_pc,
                   workerVars>>

\* an analysis run: the tree of one id, or the full analysis of the profile
NextAnalysis ==
    AnalyzeSingleMod \/ StartNetwork \/ NetStep \/ NetReturn
    \/ IdentifyMissing \/ TopologicalSort

SpecAnalysis == InitAnalysis /\ [][NextAnalysis]_vars

-----------------------------------------------------------------------------
(* Fetch failures during an analysis run *)

\* rule sets and inventories with page loads that fail: an installed and ignored
\* replacer; an installed id that another installed id may require, and an id that
\* is not installed; an installed id with an unstamped entry in the persisted cache
FailureScenarios ==
    { Scenario({3}, [i \in {1} |-> 3], <<Mod("A", 1), Mod("B", 3)>>, {3}, NoCache),
      Scenario({}, NoCache, <<Mod("B", 1), Mod("A", 2)>>, {1, 3}, NoCache),
      Scenario({}, NoCache, <<Mod("A", 3)>>, {3}, [i \in {3} |-> UnstampedEntry(3)]) }

InitFailure ==
    /\ ReadyAnalyzer
    /\ catalog \in Catalogs
    /\ \E sc \in FailureScenarios :
        /\ ignore_ids = sc.ignore_ids
        /\ replacement_map = sc.replacement_map
        /\ InventoryIs(sc.mod_list)
        /\ failing = sc.failing
        /\ cache_data = sc.cache_data
    /\ FreshRun

SpecFailure == InitFailure /\ [][NextAnalysis]_vars

\* the ids whose get is a failed fetch in this run
FailedIds ==
    {i \in failing : ~(i \in DOMAIN cache_data /\ FreshAt(cache_data[i], now))}

\* a failure as get returns it: an error marker and no requirement edge
IsFailure(mod_data) ==
    /\ "error" \in mod_data.keys
    /\ "dependencies" \in mod_data.keys => mod_data.requires = <<>>

\* no step of a run aborted
NothingRaised == tree_pc # "raised" /\ net_pc # "raised" /\ full_pc # "raised"

\* get for a failed id, wherever the run is, returns a failure and does not raise
GetReturnsFailure ==
    \A i \in FailedIds :
        LET r == get_mod_data(cache_data, i, failing)
        IN ~r.raised /\ r.fetched /\ IsFailure(r.ret)

\* buildTree: the node of a failed id has the failure's name and no children; every
\* other node that is neither ignored nor a cycle node is expanded
TreeContinues ==
    \A n \in tree_nodes :
        /\ (n.status # "cycle" /\ n.id \in FailedIds) =>
              /\ IsFailure(n.mod_data[1])
              /\ n.name = ErrorEntry(n.id).name
              /\ Below(n) = {}
        /\ n.status \in {"satisfied", "missing"} => Expanded(n)

\* buildNetwork: every get of a failed id returned a failure, a failed id has no
\* forward edge, and the traversal visited everything that is reachable when the
\* failed ids have no successors
NetworkContinues ==
    /\ \A k \in 1..Len(net_gets) :
          net_gets[k].id \in FailedIds => IsFailure(net_gets[k].mod_data)
    /\ \A i \in FailedIds : OutEdges(i) = <<>>
    /\ net_pc = "done" => processed_nodes = Reachable(installed_ids)

\* findMissing: the report has an entry for every visited id that is neither
\* satisfied nor ignored, failed or not, and a failed one has the failure's name
MissingContinues ==
    full_pc \in {"missing", "sorted"} =>
        /\ DOMAIN missing_report =
              {i \in processed_nodes :
                  OneHop(i) \notin installed_ids /\ i \notin ignore_ids}
        /\ \A i \in DOMAIN missing_report \cap FailedIds :
              missing_report[i].name = ErrorEntry(i).name

\* sort: every installed folder is placed once, in the order or among the cyclic
\* ones, and a folder of a failed id, which waits for nothing, is in the order
SortContinues ==
    full_pc = "sorted" =>
        /\ \A f \in DOMAIN folder_to_id :
              Cardinality({k \in 1..Len(sorted_order) : sorted_order[k] = f})
              + Cardinality({k \in 1..Len(cyclic_nodes) : cyclic_nodes[k] = f}) = 1
        /\ \A f \in DOMAIN folder_to_id :
              folder_to_id[f] \in FailedIds =>
                  \E k \in 1..Len(sorted_order) : sorted_order[k] = f

\* C3: get does not raise for the fetch failure of an id: it returns metadata with
\* an error marker and no requirement edges, and buildTree, buildNetwork,
\* findMissing and sort go on with the other ids, the failed id having no known
\* dependencies.
C3_FetchFailureIsData ==
    /\ NothingRaised
    /\ GetReturnsFailure
    /\ TreeContinues
    /\ NetworkContinues
    /\ MissingContinues
    /\ SortContinues

\* a full analysis that ended with two failed ids: an installed one that another
\* installed id requires and that was placed before it, and one in the report of
\* the missing ones, which the same installed id requires
C3_Witness ==
    /\ full_pc = "sorted"
    /\ \E i \in FailedIds \cap installed_ids, j \in FailedIds \cap DOMAIN missing_report :
        \E u \in installed_ids \ {i} :
            /\ \E k \in 1..Len(OutEdges(u)) : OutEdges(u)[k].id = i
            /\ \E k \in 1..Len(OutEdges(u)) : OutEdges(u)[k].id = j
            /\ Len(missing_report[j].required_by_installed) = 1
            /\ sorted_order = id_to_folders[i] \o id_to_folders[u]

\* a tree with the node of a failed id and a later sibling of it
C3_TreeWitness ==
    /\ tree_pc = "done"
    /\ \E n, m \in tree_nodes :
        /\ n.id \in FailedIds /\ n.status = "missing"
        /\ Len(n.path) = Len(m.path) /\ Len(n.path) > 0
        /\ m.path[Len(m.path)] > n.path[Len(n.path)]

-----------------------------------------------------------------------------
(* The report of the missing ids *)

\* rule sets and inventories for the missing analysis: an installed id replaced by
\* one that is not installed; a required id replaced by one that nothing requires;
\* one id under two local names, with an ignored id; an id satisfied through its
\* replacement
MissingScenarios ==
    { Scenario({}, [i \in {1} |-> 2], <<Mod("A", 1), Mod("B", 3)>>, {}, NoCache),
      Scenario({}, [i \in {2} |-> 3], <<Mod("A", 1)>>, {}, NoCache),
      Scenario({3}, NoCache, <<Mod("A", 1), Mod("B", 1)>>, {}, NoCache),
      Scenario({}, [i \in {3} |-> 1], <<Mod("A", 1)>>, {}, NoCache) }

InitMissing ==
    /\ ReadyAnalyzer
    /\ catalog \in Catalogs
    /\ \E sc \in MissingScenarios :
        /\ ignore_ids = sc.ignore_ids
        /\ replacement_map = sc.replacement_map
        /\ InventoryIs(sc.mod_list)
        /\ failing = sc.failing
        /\ cache_data = sc.cache_data
    /\ FreshRun

SpecMissing == InitMissing /\ [][GenerateSortedLoadOrder]_vars

\* x is unmet: its effective id is not installed and x is not ignored
Unmet(x) == OneHop(x) \notin installed_ids /\ x \notin ignore_ids

\* the local names that back the id i
NamesOf(i) == {f \in DOMAIN folder_to_id : folder_to_id[f] = i}

\* C11 as stated: no installed id is a key of the report of the missing ids.
C11_NoInstalledKey ==
    full_pc = "sorted" => DOMAIN missing_report \cap installed_ids = {}

\* C11, amended: an installed id whose effective id is installed, in particular
\* one without a replace rule, is no key of the report; an installed id that the
\* replace map sends to an id that is not installed, and that is not ignored, is
\* a key of the report.
C11_InstalledKeyOnlyIfReplacedAway ==
    full_pc = "sorted" =>
        \A i \in installed_ids :
            /\ i \notin DOMAIN replacement_map => i \notin DOMAIN missing_report
            /\ OneHop(i) \in installed_ids => i \notin DOMAIN missing_report
            /\ (OneHop(i) \notin installed_ids /\ i \notin ignore_ids)
                  => i \in DOMAIN missing_report

\* the report has an installed id, replaced by an id that is not installed, next
\* to an installed id that is no key
C11_Witness ==
    /\ full_pc = "sorted"
    /\ \E i, j \in installed_ids :
        /\ i \in DOMAIN missing_report /\ missing_report[i].effective_id # i
        /\ j \notin DOMAIN missing_report
        /\ \E k \in 1..Len(InEdges(i)) : InEdges(i)[k].id = j

\* C12: the keys of the report are exactly the visited ids whose effective id is
\* not installed and that are not ignored; no ignored id and no id whose
\* effective id is installed is a key.
C12_KeysAreTheUnmetIds ==
    full_pc = "sorted" =>
        /\ DOMAIN missing_report = {x \in processed_nodes : Unmet(x)}
        /\ DOMAIN missing_report \cap ignore_ids = {}
        /\ \A x \in DOMAIN missing_report : OneHop(x) \notin installed_ids

\* a run that visited an ignored id that is not installed, and an unmet id
C12_Witness ==
    /\ full_pc = "sorted"
    /\ (processed_nodes \cap ignore_ids) \ installed_ids # {}
    /\ DOMAIN missing_report # {}

\* a run that visited an id that is satisfied through its replacement only
C12_ReplacedWitness ==
    /\ full_pc = "sorted"
    /\ \E x \in processed_nodes \ installed_ids : OneHop(x) \in installed_ids
    /\ DOMAIN missing_report # {}

\* C13: for an unmet id u and a reverse edge (r requires u): the local names of an
\* installed r are all in u's required_by_installed; a requirer r that is not
\* installed and is itself unmet is in u's required_by_missing once, as
\* (name of r, r), whatever the replace map says about r.
C13_RequirersPartitioned ==
    full_pc = "sorted" =>
        \A u \in DOMAIN missing_report :
            \A k \in 1..Len(InEdges(u)) :
                LET r == InEdges(u)[k].id
                    inst == missing_report[u].required_by_installed
                    miss == missing_report[u].required_by_missing
                IN /\ r \in installed_ids =>
                        \A f \in NamesOf(r) : \E j \in 1..Len(inst) : inst[j][1] = f
                   /\ (r \notin installed_ids /\ Unmet(r)) =>
                        Cardinality({j \in 1..Len(miss) :
                                        miss[j] = <<catalog[r].name, r>>}) = 1

-----------------------------------------------------------------------------
(* The sort of the installed folders *)

\* a category of the site that CATEGORY_PRIORITIES does not list
UnlistedCategory == "Cheats and God Items"

\* the breadcrumb of page i under a plan of categories
CategoryOf(plan, i) == IF i \in DOMAIN plan THEN plan[i] ELSE "Default"

\* catalogs whose pages carry the categories of the plan and whose requirement
\* rows are all links to mod pages
CatalogsWith(plan) ==
    LET LinksOnly(c) == \A i \in Ids : \A j \in 1..Len(c[i]) : c[i][j] # BadRow
    IN {[i \in Ids |-> PageOf(i, CategoryOf(plan, i), c[i])] :
            c \in {d \in RowMaps(MaxEdges) : LinksOnly(d)}}

SortScenario(ign, repl, mods, plan) ==
    [ignore_ids |-> ign, replacement_map |-> repl, mod_list |-> mods,
     categories |-> plan]

\* rule sets, inventories and categories for the sort: three ids in three
\* categories; one id under two folders with an ignored id installed; an inventory
\* listed against the order of the names, with a category the table does not
\* list; an id provided through its replacement
SortScenarios ==
    { SortScenario({}, NoCache, <<Mod("X", 1), Mod("Y", 2), Mod("Z", 3)>>,
                   (1 :> "Utilities" @@ 2 :> "Gameplay")),
      SortScenario({2}, NoCache, <<Mod("A", 1), Mod("B", 2), Mod("C", 1)>>,
                   (1 :> "Utilities" @@ 2 :> "Patches")),
      SortScenario({}, NoCache, <<Mod("C", 3), Mod("B", 2), Mod("A", 1)>>,
                   (1 :> UnlistedCategory @@ 3 :> "Utilities")),
      SortScenario({}, [i \in {3} |-> 1], <<Mod("B", 2), Mod("A", 1)>>,
                   (1 :> "Patches")) }

InitSort ==
    /\ ReadyAnalyzer
    /\ failing = {}
    /\ cache_data = NoCache
    /\ \E sc \in SortScenarios :
        /\ ignore_ids = sc.ignore_ids
        /\ replacement_map = sc.replacement_map
        /\ InventoryIs(sc.mod_list)
        /\ catalog \in CatalogsWith(sc.categories)
    /\ FreshRun

SpecSort == InitSort /\ [][GenerateSortedLoadOrder]_vars

\* the installed local names
Names == DOMAIN folder_to_id

\* the ids that the requirement edges of id i name
RequiredBy(i) == {OutEdges(i)[k].id : k \in 1..Len(OutEdges(i))}

\* the induced precedence graph: u -> v when the id of v requires some q that is
\* satisfied and not ignored, and u backs the effective id of q
InducedEdges ==
    {e \in Names \X Names :
        \E q \in RequiredBy(folder_to_id[e[2]]) :
            /\ OneHop(q) \in installed_ids
            /\ q \notin ignore_ids
            /\ folder_to_id[e[1]] = OneHop(q)}

\* the same graph with the edges of the satisfied requirements that are ignored
SatisfiedEdges ==
    {e \in Names \X Names :
        \E q \in RequiredBy(folder_to_id[e[2]]) :
            /\ OneHop(q) \in installed_ids
            /\ folder_to_id[e[1]] = OneHop(q)}

\* the pairs joined by a path of at most k + 1 edges of E
RECURSIVE PathsWithin(_, _)
PathsWithin(E, k) ==
    IF k = 0 THEN E
    ELSE UNION {T \cup {p \in Names \X Names :
                            \E m \in Names : <<p[1], m>> \in T /\ <<m, p[2]>> \in E} :
                T \in {PathsWithin(E, k - 1)}}

Paths(E) == PathsWithin(E, Cardinality(Names))
OnCycle(E, f) == <<f, f>> \in Paths(E)
Acyclic(E) == \A f \in Names : ~OnCycle(E, f)

InOrder(f) == \E k \in 1..Len(sorted_order) : sorted_order[k] = f
InCyclic(f) == \E k \in 1..Len(cyclic_nodes) : cyclic_nodes[k] = f
Pos(f) == CHOOSE k \in 1..Len(sorted_order) : sorted_order[k] = f
Sorted == full_pc = "sorted"

\* C14: when the induced precedence graph over the installed local names has no
\* cycle, sort returns an empty cyclic list and an order in which every installed
\* local name appears exactly once and u is before v for every precedence edge
\* u -> v, also when one id is backed by several local names.
C14_AcyclicIsFullySorted ==
    (Sorted /\ Acyclic(InducedEdges)) =>
        /\ cyclic_nodes = <<>>
        /\ \A f \in Names :
              Cardinality({k \in 1..Len(sorted_order) : sorted_order[k] = f}) = 1
        /\ \A e \in InducedEdges : Pos(e[1]) < Pos(e[2])

\* the priority of the category of the page of a local name, 50 when the table
\* does not list the category
Prio(f) ==
    LET category == catalog[folder_to_id[f]].category
    IN IF category \in DOMAIN CATEGORY_PRIORITIES THEN CATEGORY_PRIORITIES[category]
       ELSE 50

\* the order by (priority, name)
Before(f, g) == Prio(f) < Prio(g) \/ (Prio(f) = Prio(g) /\ FolderLess(f, g))

\* the names emitted before step k, and the names not yet emitted whose in-degree
\* is zero at step k: every edge into them comes from an emitted name
EmittedBefore(k) == {sorted_order[j] : j \in 1..(k - 1)}
ReadyAt(k) ==
    {f \in Names \ EmittedBefore(k) :
        \A e \in SatisfiedEdges : e[2] = f => e[1] \in EmittedBefore(k)}

\* C15: at every emission step the emitted name is the least by (category
\* priority, name) among the names not yet emitted whose in-degree is zero at
\* that step, the priority of a category outside the table being 50; the order is
\* a function of the graph, the priorities and the names, not of the order of the
\* inventory.
C15_EmitsLeastReady ==
    Sorted =>
        \A k \in 1..Len(sorted_order) :
            /\ sorted_order[k] \in ReadyAt(k)
            /\ \A g \in ReadyAt(k) \ {sorted_order[k]} : Before(sorted_order[k], g)

\* two names are ready at the first step, the later name has the lower priority
\* and is emitted first; a name of an unlisted category ties at 50 with one of
\* the category "Default" and the names decide; the inventory lists the names in
\* another order
C15_Witness ==
    /\ Sorted
    /\ Len(sorted_order) = 3
    /\ FoldersInOrder # sorted_order
    /\ \E f, g \in ReadyAt(1) :
          /\ FolderLess(g, f) /\ Prio(f) < Prio(g) /\ Pos(f) < Pos(g)
    /\ \E k \in 1..Len(sorted_order) : \E f, g \in ReadyAt(k) :
          /\ catalog[folder_to_id[f]].category = UnlistedCategory
          /\ catalog[folder_to_id[g]].category = "Default"
          /\ Pos(f) < Pos(g)

\* C16: every installed local name that lies on a cycle of the induced precedence
\* graph (a two-cycle of two installed, satisfied ids, or a self-loop) is in
\* cyclic and is not in order.
C16_CycleMembersReported ==
    Sorted =>
        \A f \in Names :
            OnCycle(InducedEdges, f) => InCyclic(f) /\ ~InOrder(f)

\* a two-cycle of two names, with a third name that is sorted
C16_Witness ==
    /\ Sorted
    /\ \E f, g \in Names :
          /\ f # g
          /\ <<f, g>> \in InducedEdges /\ <<g, f>> \in InducedEdges
          /\ InCyclic(f) /\ InCyclic(g)
    /\ sorted_order # <<>>

\* a name whose id requires itself
C16_SelfLoopWitness ==
    /\ Sorted
    /\ \E f \in Names :
          /\ <<f, f>> \in InducedEdges
          /\ \A g \in Names \ {f} : <<g, f>> \notin InducedEdges
          /\ InCyclic(f)

\* the number of precedence edges u -> v that the sort builds from the graph
EdgeCount(u, v) ==
    LET es == PrecedenceEdges(graph)
    IN Cardinality({k \in 1..Len(es) : es[k] = <<u, v>>})

\* the requirement edges of the id of v that are satisfied, not ignored, and
\* provided by the id of u
OrderingRequirements(u, v) ==
    LET reqs == OutEdges(folder_to_id[v])
    IN {k \in 1..Len(reqs) :
            /\ OneHop(reqs[k].id) \in installed_ids
            /\ reqs[k].id \notin ignore_ids
            /\ folder_to_id[u] = OneHop(reqs[k].id)}

\* C17: a requirement edge (the id of a name requires q) adds a precedence edge
\* only when q is satisfied and q is not ignored; an unsatisfied or an ignored
\* requirement adds none, and a satisfied one that is not ignored adds one edge
\* from every local name that backs the effective id of q.
C17_EdgesOnlyForSatisfiedUnignored ==
    Sorted =>
        \A u, v \in Names : EdgeCount(u, v) = Cardinality(OrderingRequirements(u, v))

EndToEndInput ==
    /\ mod_list = <<Mod("X", 1), Mod("Y", 2), Mod("Z", 3)>>
    /\ ignore_ids = {} /\ replacement_map = NoCache
    /\ catalog[1].category = "Utilities" /\ catalog[1].requires = <<>>
    /\ catalog[2].category = "Gameplay" /\ catalog[2].requires = <<Row(1)>>
    /\ catalog[3].category = "Default" /\ catalog[3].requires = <<>>

\* C19: with the installed names X (id 1, Utilities, priority 10), Y (id 2,
\* Gameplay, priority 20, requires id 1, satisfied) and Z (id 3, Default, priority
\* 50, no requirement) and no rules, the full analysis yields order = [X, Y, Z],
\* cyclic = [] and an empty missing report.
C19_EndToEnd ==
    (EndToEndInput /\ net_pc # "idle") =>
        /\ Sorted
        /\ sorted_order = <<"X", "Y", "Z">>
        /\ cyclic_nodes = <<>>
        /\ DOMAIN missing_report = {}

C19_Witness ==
    /\ EndToEndInput
    /\ Sorted
    /\ Prio("X") = 10 /\ Prio("Y") = 20 /\ Prio("Z") = 50
    /\ InducedEdges = {<<"X", "Y">>}

-----------------------------------------------------------------------------
(* A run of the worker *)

\* the analyzer as Worker._run_analysis constructs it, before the browser is up
InitRun ==
    /\ now = 0
    /\ CACHE_EXPIRATION_DAYS = MaxExpirationDays
    /\ page = FALSE
    /\ run_pc = "constructed"
    /\ last_get = NoGet
    /\ rule_query = NoQuery
    /\ TreeIdle /\ NetIdle /\ FullIdle
    /\ catalog \in Catalogs
    /\ \E sc \in MissingScenarios :
        /\ ignore_ids = sc.ignore_ids
        /\ replacement_map = sc.replacement_map
        /\ InventoryIs(sc.mod_list)
        /\ failing = sc.failing
        /\ cache_data = sc.cache_data
    /\ FreshRun

\* Worker._run_analysis: the browser, then the analysis the run was started for
NextRun == InitializeBrowser \/ AnalyzeSingleMod \/ GenerateSortedLoadOrder

SpecRun == InitRun /\ [][NextRun]_vars

\* no get or fetch, no tree, no network, no missing analysis, no sort, no report
NothingRan ==
    /\ last_get = NoGet
    /\ cache_data = NoCache
    /\ TreeIdle /\ NetIdle /\ FullIdle

\* C20: when the fetch path cannot be set up (no usable cookies, or the browser
\* does not start), the run reports one hard failure before any traversal: no
\* get or fetch, no buildTree, buildNetwork, findMissing or sort step is executed
\* in that run and no report is produced.
C20_NoAnalysisWithoutFetchPath ==
    (~page /\ run_pc # "constructed") => (run_pc = "failed" /\ NothingRan)

\* the browser did not come up for a profile with installed mods
C20_Witness ==
    /\ run_pc = "failed" /\ ~page
    /\ installed_ids # {}
    /\ ~ENABLED NextRun

-----------------------------------------------------------------------------
(* The worker: runs one after the other, on the cache file they share *)

\* inventories of the worker's runs: no mod with an id, and one mod
WorkerModLists == {<<>>, <<Mod("A", 1)>>}

\* the worker before its first run: no analyzer yet, the cache file absent or
\* written by an earlier process
InitWorker ==
    /\ now = 0
    /\ CACHE_EXPIRATION_DAYS = MaxExpirationDays
    /\ page = FALSE
    /\ run_pc = "idle"
    /\ cache_data = NoCache
    /\ cache_file \in {NoFile} \cup {FileOf(cd) : cd \in LoadedCaches(now)}
    /\ signals = <<>> /\ closed = 0 /\ cleared = <<>>
    /\ catalog = RingCatalog
    /\ failing = {}
    /\ ignore_ids = {} /\ replacement_map = NoCache
    /\ \E ml \in WorkerModLists : InventoryIs(ml)
    /\ last_get = NoGet
    /\ rule_query = NoQuery
    /\ TreeIdle /\ NetIdle /\ FullIdle

\* no run is under way
Returned == run_pc \in {"idle", "failed", "returned"}

\* Worker._run_analysis, line 767: a new analyzer, which loads the cache file,
\* the rules and the inventory
ConstructAnalyzer ==
    /\ Returned
    /\ cache_file.kind # "as_loaded"
    /\ cache_data' = _load_cache(cache_file)
    /\ page' = FALSE
    /\ run_pc' = "constructed"
    /\ signals' = <<>>
    /\ closed' = 0
    /\ tree_nodes' = {} /\ tree_pc' = "idle"
    /\ graph' = NoCache /\ reverse_graph' = NoCache
    /\ nodes_to_process' = <<>> /\ processed_nodes' = {}
    /\ net_pc' = "idle" /\ net_gets' = <<>>
    /\ missing_report' = NoCache /\ sorted_order' = <<>> /\ cyclic_nodes' = <<>>
    /\ in_degree' = NoCache
    /\ full_pc' = "idle"
    /\ UNCHANGED <<now, CACHE_EXPIRATION_DAYS, siteVars, ruleVars, inventoryVars,
                   last_get, rule_query, cache_file, cleared>>

\* ModAnalyzer.clear_cache mutated: the file is removed, cache_data is kept
ClearCacheKeepingMemory ==
    /\ run_pc \in {"constructed", "ready"}
    /\ cache_file' = NoFile
    /\ cleared' = <<now>>
    /\ UNCHANGED <<cache_data, now, CACHE_EXPIRATION_DAYS, page, siteVars, ruleVars,
                   inventoryVars, last_get, rule_query, treeVars, netVars, fullVars,
                   run_pc, signals, closed>>

\* ModAnalyzer.clear_cache, on the analyzer of the run under way
ClearCache ==
    /\ run_pc \in {"constructed", "ready"}
    /\ cache_data' = NoCache
    /\ cache_file' = NoFile
    /\ cleared' = <<now>>
    /\ UNCHANGED <<now, CACHE_EXPIRATION_DAYS, page, siteVars, ruleVars,
                   inventoryVars, last_get, rule_query, treeVars, netVars, fullVars,
                   run_pc, signals, closed>>

\* Worker.clear_cache, between two runs: the file is removed; the analyzer of the
\* last run is not touched
WorkerClearCache ==
    /\ Returned
    /\ cache_file' = NoFile
    /\ cleared' = <<now>>
    /\ UNCHANGED <<cache_data, now, CACHE_EXPIRATION_DAYS, page, siteVars, ruleVars,
                   inventoryVars, last_get, rule_query, treeVars, netVars, fullVars,
                   run_pc, signals, closed>>

\* Worker._run_analysis, lines 776-780, mutated: no signal without a result path
EmitOnlyOnSuccess(sigs, result_path) ==
    IF result_path THEN Append(sigs, "analysis_finished") ELSE sigs

\* Worker._run_analysis, lines 776-780: analysis_finished with a result path,
\* error without one (the name of the lambda is never 'clear_cache')
EmitTerminal(sigs, result_path) ==
    IF result_path THEN Append(sigs, "analysis_finished") ELSE Append(sigs, "error")

\* Worker.run_single_mod_analysis from the call of analysis_func on: the tree,
\* the report file, which may fail to be written, then close and the signal; an
\* exception goes to the except branch, which emits error and closes
RunSingleModAnalysis ==
    /\ run_pc = "ready"
    /\ \E initial_mod_id \in Ids, written \in BOOLEAN :
        \E r \in {BuildTree(<<Frame(<<>>, initial_mod_id, {}, <<>>)>>, {}, cache_data)} :
           /\ tree_pc' = IF r.raised \/ ~written THEN "raised" ELSE "done"
           /\ tree_nodes' = IF r.raised \/ ~written THEN {} ELSE r.nodes
           /\ cache_data' = r.cache
           /\ cache_file' = FileOf(r.cache)
           /\ signals' = IF r.raised \/ ~written THEN Append(signals, "error")
                         ELSE EmitTerminal(signals, TRUE)
    /\ closed' = closed + 1
    /\ run_pc' = "returned"
    /\ UNCHANGED <<now, CACHE_EXPIRATION_DAYS, page, siteVars, ruleVars,
                   inventoryVars, last_get, rule_query, netVars, fullVars, cleared>>

\* Worker.run_full_profile_analysis from the call of analysis_func on
RunFullProfileAnalysis ==
    /\ run_pc = "ready"
    /\ IF DOMAIN folder_to_id = {}
       THEN /\ net_pc' = "no_report"
            /\ signals' = EmitTerminal(signals, FALSE)
            /\ cache_file' = FileOf(cache_data)
            /\ UNCHANGED <<cache_data, graph, reverse_graph, processed_nodes, fullVars>>
       ELSE \E q \in Orderings(installed_ids), written \in BOOLEAN :
            \E n \in {BuildNetwork(q, NoCache, NoCache, {}, cache_data)} :
            \E m \in {_identify_missing_dependencies(n.processed_nodes,
                                                     n.reverse_graph, n.cache)} :
            \E t \in {_perform_topological_sort(n.graph, m.cache)} :
               IF n.raised \/ m.raised \/ t.raised \/ ~written
               THEN /\ net_pc' = "raised"
                    /\ signals' = Append(signals, "error")
                    /\ cache_data' = t.cache
                    /\ cache_file' = FileOf(t.cache)
                    /\ UNCHANGED <<graph, reverse_graph, processed_nodes, fullVars>>
               ELSE /\ net_pc' = "done"
                    /\ graph' = n.graph
                    /\ reverse_graph' = n.reverse_graph
                    /\ processed_nodes' = n.processed_nodes
                    /\ missing_report' = m.report
                    /\ sorted_order' = t.sorted_order
                    /\ cyclic_nodes' = t.cyclic_nodes
                    /\ in_degree' = t.in_degree
                    /\ full_pc' = "sorted"
                    /\ cache_data' = t.cache
                    /\ cache_file' = FileOf(t.cache)
                    /\ signals' = EmitTerminal(signals, TRUE)
    /\ closed' = closed + 1
    /\ run_pc' = "returned"
    /\ UNCHANGED <<now, CACHE_EXPIRATION_DAYS, page, siteVars, ruleVars, inventoryVars,
                   last_get, rule_query, treeVars, nodes_to_process, net_gets, cleared>>

NextWorker ==
    ConstructAnalyzer \/ InitializeBrowser \/ RunSingleModAnalysis
    \/ RunFullProfileAnalysis \/ ClearCache \/ WorkerClearCache \/ Tick

SpecWorker == InitWorker /\ [][NextWorker]_vars

\* an analyzer is under way: its cache_data is the in-memory store
Live == run_pc \in {"constructed", "ready"}

\* the entry of id i was fetched from the site on or after the day of the last
\* clearing
FetchedSinceClear(i, entry) ==
    \E u \in cleared[1]..now : entry = NewEntry(catalog[i], u)

\* the store and the file hold nothing from before the last clearing
NothingFromBeforeClear ==
    cleared # <<>> =>
        /\ Live => \A i \in DOMAIN cache_data : FetchedSinceClear(i, cache_data[i])
        /\ cache_file.kind # "as_loaded"
        /\ cache_file.kind = "holds" =>
              \A i \in DOMAIN cache_file.data :
                  FetchedSinceClear(i, cache_file.data[i])

\* a step that clears leaves the store of the analyzer under way empty and no file
ClearEmpties ==
    (cleared' # cleared \/ (cache_file' = NoFile /\ cache_file # NoFile)) =>
        /\ cache_file' = NoFile
        /\ Live' => cache_data' = NoCache

C21_EmptyPersistWitness ==
    /\ cleared # <<>>
    /\ run_pc = "failed"
    /\ cache_file = FileOf(NoCache)

-----------------------------------------------------------------------------
(* Termination of the two traversals *)

\* inventories without rules: nothing cuts a branch of the tree short
TraversalScenarios ==
    { Scenario({}, NoCache, <<Mod("A", 1)>>, {}, NoCache),
      Scenario({}, NoCache, <<Mod("A", 1), Mod("B", 3)>>, {}, NoCache) }

\* every id requires every id, itself included
CompleteCatalog ==
    [i \in Ids |-> PageOf(i, "Default", [k \in 1..MaxId |-> Row(k)])]

\* catalogs in which every page has a requirement, so that every path runs into
\* a cycle or a row that is no link
TraversalCatalogs ==
    {c \in Catalogs : \A i \in Ids : c[i].requires # <<>>} \cup {CompleteCatalog}

InitTraversal ==
    /\ ReadyAnalyzer
    /\ catalog \in TraversalCatalogs
    /\ \E sc \in TraversalScenarios :
        /\ ignore_ids = sc.ignore_ids
        /\ replacement_map = sc.replacement_map
        /\ InventoryIs(sc.mod_list)
        /\ failing = sc.failing
        /\ cache_data = sc.cache_data
    /\ FreshRun

NextTraversal == AnalyzeSingleMod \/ StartNetwork \/ NetStep \/ NetReturn

\* the while loop of the traversal is straight-line code: it keeps running
SpecTraversal ==
    InitTraversal /\ [][NextTraversal]_vars /\ WF_vars(NetStep) /\ WF_vars(NetReturn)

\* every path from the root has at most one node per id and one more
TreeDepthBounded ==
    \A n \in tree_nodes : Len(n.path) + 1 <= Cardinality(Ids) + 1

\* no id is expanded twice and every expanded id is reachable
ExpandedAtMostOnce ==
    /\ \A j, k \in 1..Len(net_gets) : net_gets[j].id = net_gets[k].id => j = k
    /\ \A k \in 1..Len(net_gets) : net_gets[k].id \in Reachable(installed_ids)

\* C22: for every finite catalog, with cycles and self-loops or without,
\* buildTree and buildNetwork terminate: a path from the root to a leaf has at
\* most (number of distinct ids + 1) nodes, and the queue of the breadth-first
\* traversal empties after at most one expansion per reachable id.
C22_TraversalsTerminate ==
    /\ []TreeDepthBounded
    /\ []ExpandedAtMostOnce
    /\ (net_pc = "loop") ~> (net_pc = "done" /\ nodes_to_process = <<>>)

\* a tree over a cycle through every id: the path ends in a cycle node one below
\* the last id
C22_Witness ==
    /\ tree_pc = "done"
    /\ \E n \in tree_nodes :
          /\ Len(n.path) + 1 = Cardinality(Ids) + 1
          /\ n.status = "cycle"

\* the traversal returned on a catalog in which an installed id requires itself
C22_NetworkWitness ==
    /\ net_pc = "done"
    /\ \E i \in installed_ids : \E k \in 1..Len(OutEdges(i)) : OutEdges(i)[k].id = i
    /\ Len(net_gets) >= 2

-----------------------------------------------------------------------------
(* The frame of the analyses *)

\* the ids with an inventory entry are the installed ids, as _parse_installed_mods
\* left them: no analysis adds a key for an id it looked up
InventoryKeysAreInstalled ==
    /\ DOMAIN id_to_folders = installed_ids
    /\ installed_ids = {folder_to_id[f] : f \in DOMAIN folder_to_id}

\* C23: the tree, the network traversal, the missing analysis and the sort leave
\* the rule set (ignore_ids, replacement_map) and the inventory (folder_to_id,
\* id_to_folders, installed_ids) as they were, also when they meet ids that have
\* no inventory entry
C23_AnalysesKeepRulesAndInventory ==
    /\ []InventoryKeysAreInstalled
    /\ [][UNCHANGED <<ignore_ids, replacement_map, folder_to_id, id_to_folders,
                      installed_ids>>]_vars

\* the full analysis ran to its sort and expanded an id that has no inventory entry
C23_Witness ==
    /\ full_pc = "sorted"
    /\ \E i \in processed_nodes : i \notin DOMAIN id_to_folders
    /\ missing_report # <<>>

\* a tree was built that holds a node of an id without inventory entry
C23_TreeWitness ==
    /\ tree_pc = "done"
    /\ \E n \in tree_nodes : n.id \notin DOMAIN id_to_folders

-----------------------------------------------------------------------------
(* The two lists of the sort *)

\* how often the name f stands in the sequence q
Occurrences(q, f) == Cardinality({k \in 1..Len(q) : q[k] = f})

\* C24: the sort splits the installed names between its two results: no name is in
\* both sorted_order and cyclic_nodes, every installed name is in exactly one of
\* them, no name stands twice in sorted_order, and no in-degree is negative (a
\* count is only ever decremented, line 661, so its last value is its least)
C24_SortPartitionsNames ==
    Sorted =>
        /\ \A f \in Names : ~(InOrder(f) /\ InCyclic(f))
        /\ \A f \in Names : InOrder(f) \/ InCyclic(f)
        /\ \A k \in 1..Len(sorted_order) : sorted_order[k] \in Names
        /\ \A k \in 1..Len(cyclic_nodes) : cyclic_nodes[k] \in Names
        /\ \A f \in Names : Occurrences(sorted_order, f) <= 1
        /\ DOMAIN in_degree = Names
        /\ \A f \in Names : in_degree[f] >= 0

\* a sort that put names in both lists and counted an in-degree down to zero
C24_Witness ==
    /\ Sorted
    /\ sorted_order # <<>> /\ cyclic_nodes # <<>>
    /\ \E f \in Names : InOrder(f) /\ in_degree[f] = 0 /\ \E e \in InducedEdges : e[2] = f

\* a sort that emitted a name with two providers ahead of it
C24_CountedDownWitness ==
    /\ Sorted
    /\ \E f \in Names : InOrder(f) /\ Cardinality({e \in InducedEdges : e[2] = f}) >= 2

-----------------------------------------------------------------------------
(* The two maps of the network *)

\* how often the edge e stands in the list of the key k of the map d
EdgesAt(d, k, e) == Cardinality({n \in 1..Len(GetList(d, k)) : GetList(d, k)[n] = e})

\* graph[u] holds the edge to v with the notes n as often as reverse_graph[v]
\* holds the edge from u with the notes n
MapsMirror ==
    /\ \A u \in DOMAIN graph : \A k \in 1..Len(graph[u]) :
          LET e == graph[u][k]
          IN EdgesAt(graph, u, e) = EdgesAt(reverse_graph, e.id, [id |-> u, notes |-> e.notes])
    /\ \A v \in DOMAIN reverse_graph : \A k \in 1..Len(reverse_graph[v]) :
          LET e == reverse_graph[v][k]
          IN EdgesAt(reverse_graph, v, e) = EdgesAt(graph, e.id, [id |-> v, notes |-> e.notes])

\* C25: after every iteration of _build_full_dependency_network and at its return,
\* graph and reverse_graph mirror each other, and every key of graph is an id that
\* was expanded already
C25_ForwardAndReverseMirror ==
    /\ MapsMirror
    /\ DOMAIN graph \subseteq processed_nodes

\* the traversal returned maps in which an id has two requirers and some list holds
\* the same edge twice or an edge back to a processed id
C25_Witness ==
    /\ net_pc = "done"
    /\ \E v \in DOMAIN reverse_graph : Len(reverse_graph[v]) >= 2
    /\ \E u \in DOMAIN graph : \E k \in 1..Len(graph[u]) : graph[u][k].id \in DOMAIN graph

\* in the middle of the traversal: edges are recorded and ids still wait in the queue
C25_StepWitness ==
    /\ net_pc = "loop"
    /\ nodes_to_process # <<>>
    /\ graph # NoCache

-----------------------------------------------------------------------------
(* The end of a run of the worker *)

\* _run_analysis has returned
RunEnded == run_pc \in {"failed", "returned"}

\* one terminal signal was emitted in this run, analysis_finished or error
ExactlyOneTerminal ==
    /\ Len(signals) = 1
    /\ signals[1] \in {"analysis_finished", "error"}

\* while the run is under way nothing is emitted; when it has returned, one
\* terminal signal was emitted and close was called
OneSignalAndClosed ==
    /\ Live => signals = <<>> /\ closed = 0
    /\ RunEnded => ExactlyOneTerminal /\ closed >= 1

\* the step that ends the run calls close, which writes cache_data to the file
EndingPersists ==
    (Live /\ RunEnded') => closed' = closed + 1 /\ cache_file' = FileOf(cache_data')

C26_SetupFailureWitness ==
    /\ run_pc = "failed" /\ ~page
    /\ signals = <<"error">> /\ closed = 1

\* no installed mod: no report, hence error
C26_NoReportWitness ==
    /\ run_pc = "returned" /\ net_pc = "no_report"
    /\ signals = <<"error">> /\ closed = 1

\* a report was written, of a tree or of the profile
C26_SuccessWitness ==
    /\ run_pc = "returned"
    /\ tree_pc = "done" \/ full_pc = "sorted"
    /\ signals = <<"analysis_finished">> /\ closed = 1

====
